---- MODULE Spec2Model ----
(***************************************************************************)
(* Parallel df-pn+ Othello endgame solver (hybrid LocalHeap +              *)
(* GlobalChunkQueue + SharedTaskArray engine).                             *)
(*                                                                         *)
(* Positions are abstract: a game is a finite table of positions, each     *)
(* with its legal-move successors (in first_one order), an optional pass   *)
(* successor, the disc counts of the side to move and of the opponent, and *)
(* the static evaluation stored in a node's eval_score.  get_moves,        *)
(* make_move and evaluate_position are read off that table.                *)
(***************************************************************************)
EXTENDS Integers, Sequences, FiniteSets, TLC

(***************************************************************************)
(* Program constants                                                       *)
(***************************************************************************)
PN_INF == 100000000
DN_INF == 100000000

RESULT_UNKNOWN == 0
RESULT_EXACT_WIN == 1
RESULT_EXACT_LOSE == -1
RESULT_EXACT_DRAW == 2

NODE_OR == 0
NODE_AND == 1

CHUNK_SIZE == 16
LOCAL_HEAP_CAPACITY == 1024
GLOBAL_QUEUE_CAPACITY == 4096
SHARED_ARRAY_SIZE == 65536
LOCAL_EXPORT_THRESHOLD == CHUNK_SIZE + 4
INT_MIN == -2147483647 - 1

DEFAULT_SPAWN_MAX_GENERATION == 1
DEFAULT_SPAWN_MIN_DEPTH == 5
DEFAULT_SPAWN_LIMIT_PER_NODE == 9999

TT_LOCK_STRIPES == 1024

(***************************************************************************)
(* Bounds of the model                                                     *)
(***************************************************************************)
\* number of worker threads (num_threads)
MaxThreads == 2

(***************************************************************************)
(* Small helpers                                                           *)
(***************************************************************************)
Min(a, b) == IF a < b THEN a ELSE b


(***************************************************************************)
(* Games.  Position 1 is the root position handed to solve_endgame.        *)
(*   kids  : successor positions after each legal move, in first_one order *)
(*   pass  : the swapped position when the side to move has no move but    *)
(*           the opponent has one, else 0                                  *)
(*   pcnt, ocnt : popcount(player), popcount(opponent)                     *)
(*   ev    : -evaluate_position(player, opponent), as stored in eval_score *)
(*   sq    : (root only) the squares of the legal moves, ascending         *)
(***************************************************************************)
Leaf(p, o) == [kids |-> <<>>, pass |-> 0, pcnt |-> p, ocnt |-> o, ev |-> 0]

Inner(ks, p, o, e) == [kids |-> ks, pass |-> 0, pcnt |-> p, ocnt |-> o, ev |-> e]

MkGame(ps, sq) == [pos |-> ps, sq |-> sq]

\* Disc counts of a finished position seen from the side to move there, for
\* each outcome of the ROOT player: "W" root player ahead, "L" behind, "D" level.
\* rootToMove says whether the root player is the side to move at the leaf.
LeafFor(out, rootToMove, empties) ==
    LET total == 64 - empties
        hi == (total \div 2) + 1
        lo == total - hi
    IN  IF out = "D" THEN Leaf(total \div 2, total \div 2)
        ELSE IF (out = "W") = rootToMove THEN Leaf(hi, lo) ELSE Leaf(lo, hi)

Outcomes == {"W", "L", "D"}

\* S1-S3: the root position is already finished (full board).
TerminalGames == { MkGame(<< LeafFor(o, TRUE, 0) >>, << >>) : o \in Outcomes }

\* S4: one empty square; the only root move fills it and ends the game.
OneMoveGames ==
    { MkGame(<< Inner(<<2>>, 31, 32, 0), LeafFor(o, FALSE, 0) >>, << 63 >>)
        : o \in Outcomes }

\* Two empty squares, two root moves (squares 0 and 9); after each the
\* opponent has one reply that ends the game with the root player to move.
TwoMoveGames ==
    { MkGame(<< Inner(<<2, 3>>, 31, 31, 0),
                Inner(<<4>>, 30, 33, e1), Inner(<<5>>, 30, 33, 0),
                LeafFor(o1, TRUE, 0), LeafFor(o2, TRUE, 0) >>, << 0, 9 >>)
        : o1 \in Outcomes, o2 \in Outcomes, e1 \in {0, 1} }

\* Four empty squares, one root move; the opponent then has two replies: the
\* first ends the game at once (nobody can move, two squares left empty), the
\* second leaves the root player one last move, after which nobody can move.
DeepGames ==
    { MkGame(<< Inner(<<2>>, 30, 30, 0),
                Inner(<<3, 4>>, 29, 32, 0),
                LeafFor(o1, TRUE, 2),
                Inner(<<5>>, 30, 32, 0),
                LeafFor(o2, FALSE, 1) >>, << 18 >>)
        : o1 \in Outcomes, o2 \in {"W", "L"} }

Games == TerminalGames \cup OneMoveGames \cup TwoMoveGames \cup DeepGames

(***************************************************************************)
(* Board primitives read off the game table                                *)
(***************************************************************************)
\* popcount(~(p | o))
Empties(g, p) == 64 - g.pos[p].pcnt - g.pos[p].ocnt

\* hash_position: the canonical hash of a position (one key per position)
hash_position(g, p) == p

Sign(x) == IF x > 0 THEN 1 ELSE IF x < 0 THEN -1 ELSE 0

get_final_score(p_count, o_count) ==
    LET empty == 64 - p_count - o_count
    IN  IF p_count > o_count THEN p_count - o_count + empty
        ELSE IF o_count > p_count THEN -(o_count - p_count + empty)
        ELSE 0

FinalScore(g, p) == get_final_score(g.pos[p].pcnt, g.pos[p].ocnt)

(***************************************************************************)
(* Sequential negamax reference: the game value for the side to move,      *)
(* 1 win, 0 draw, -1 loss.                                                 *)
(***************************************************************************)
RECURSIVE SeqMax(_, _)
SeqMax(s, i) == IF i > Len(s) THEN -1
                ELSE LET r == SeqMax(s, i + 1) IN IF s[i] > r THEN s[i] ELSE r

RECURSIVE Negamax(_, _)
Negamax(g, p) ==
    LET n == g.pos[p]
    IN  IF Len(n.kids) > 0
          THEN SeqMax([i \in 1..Len(n.kids) |-> -Negamax(g, n.kids[i])], 1)
        ELSE IF n.pass # 0 THEN -Negamax(g, n.pass)
        ELSE Sign(FinalScore(g, p))

ResultOfValue(v) == IF v > 0 THEN RESULT_EXACT_WIN
                    ELSE IF v < 0 THEN RESULT_EXACT_LOSE
                    ELSE RESULT_EXACT_DRAW

(***************************************************************************)
(* Binary max-heaps on the field priority (LocalHeap of Task, and the      *)
(* PriorityQueue of expand_node_with_evaluation).  Index i of the C array  *)
(* is element i+1 of the sequence.                                         *)
(***************************************************************************)
RECURSIVE SiftUp(_, _, _)
SiftUp(h, i, x) ==
    LET parent == (i - 1) \div 2
    IN  IF i > 0 /\ ~(x.priority <= h[parent + 1].priority)
          THEN SiftUp([h EXCEPT ![i + 1] = h[parent + 1]], parent, x)
          ELSE [h EXCEPT ![i + 1] = x]

RECURSIVE SiftDown(_, _, _)
SiftDown(h, i, last) ==
    LET size == Len(h)
        c0 == i * 2 + 1
        child == IF c0 + 1 < size /\ h[c0 + 2].priority > h[c0 + 1].priority
                   THEN c0 + 1 ELSE c0
    IN  IF c0 < size /\ ~(last.priority >= h[child + 1].priority)
          THEN SiftDown([h EXCEPT ![i + 1] = h[child + 1]], child, last)
          ELSE [h EXCEPT ![i + 1] = last]

\* the heap after a push that found room
HeapInsert(h, x) == SiftUp(Append(h, x), Len(h), x)

\* the heap after a pop of a non-empty heap (the popped element is h[1])
HeapRemoveTop(h) ==
    IF Len(h) = 1 THEN << >>
    ELSE SiftDown(SubSeq(h, 1, Len(h) - 1), 0, h[Len(h)])

\* local_heap_push: a full heap drops the task
local_heap_push(lh, task) ==
    IF Len(lh) >= LOCAL_HEAP_CAPACITY THEN lh ELSE HeapInsert(lh, task)

local_heap_pop(lh) == HeapRemoveTop(lh)

RECURSIVE PushAll(_, _, _)
PushAll(lh, ts, i) ==
    IF i > Len(ts) THEN lh ELSE PushAll(local_heap_push(lh, ts[i]), ts, i + 1)

\* pq_push of idx 0..n-1 with their priorities, then n times pq_pop
RECURSIVE PqFill(_, _, _)
PqFill(h, prios, i) ==
    IF i > Len(prios) THEN h
    ELSE PqFill(HeapInsert(h, [move |-> i, priority |-> prios[i]]), prios, i + 1)

RECURSIVE PqDrain(_)
PqDrain(h) == IF Len(h) = 0 THEN << >>
              ELSE << h[1].move >> \o PqDrain(HeapRemoveTop(h))

PqOrder(prios) == PqDrain(PqFill(<< >>, prios, 1))

(***************************************************************************)
(* Records                                                                 *)
(***************************************************************************)
\* a DFPNNode as node_pool_alloc returns it (calloc / memset to zero)
ZeroNode == [pos |-> 0, pn |-> 0, dn |-> 0, threshold_pn |-> 0, threshold_dn |-> 0,
             result |-> RESULT_UNKNOWN, type |-> NODE_OR, eval_score |-> 0,
             is_proven |-> FALSE, children |-> << >>, depth |-> 0]

\* a TTEntry of the calloc'ed table
ZeroEntry == [key |-> 0, pn |-> 0, dn |-> 0, result |-> RESULT_UNKNOWN,
              depth |-> 0, eval_score |-> 0]

NoTask == [pos |-> 0, root_move |-> -1, priority |-> 0, eval_score |-> 0,
           is_root_task |-> FALSE, depth |-> 0, node_type |-> NODE_OR, generation |-> 0]

OtherType(t) == IF t = NODE_OR THEN NODE_AND ELSE NODE_OR

(***************************************************************************)
(* Transposition table: one entry per slot, slot = key & mask.  The table  *)
(* is kept sparse: a slot never written holds the zero entry.              *)
(***************************************************************************)
\* tt->size of tt_create(TT_SIZE_MB): the largest power of two below 10240 MB / sizeof(TTEntry)
TTSize == 268435456

TTIndex(key) == key % TTSize

TTGet(t, key) == IF TTIndex(key) \in DOMAIN t THEN t[TTIndex(key)] ELSE ZeroEntry

tt_probe_hit(t, key, depth) ==
    LET entry == TTGet(t, key) IN entry.key = key /\ entry.depth >= depth

\* a store that keeps an entry of equal depth
tt_store_deeper_only(t, key, depth, pn, dn, result, eval_score) ==
    LET entry == TTGet(t, key)
    IN  IF entry.depth < depth
          THEN (TTIndex(key) :> [key |-> key, pn |-> pn, dn |-> dn, result |-> result,
                                 depth |-> depth, eval_score |-> eval_score]) @@ t
          ELSE t

tt_store(t, key, depth, pn, dn, result, eval_score) ==
    LET entry == TTGet(t, key)
    IN  IF entry.depth <= depth
          THEN (TTIndex(key) :> [key |-> key, pn |-> pn, dn |-> dn, result |-> result,
                                 depth |-> depth, eval_score |-> eval_score]) @@ t
          ELSE t

(***************************************************************************)
(* pn/dn update and child selection                                        *)
(***************************************************************************)
RECURSIVE SatSum(_, _, _)
SatSum(s, i, acc) ==
    IF i > Len(s) THEN acc
    ELSE LET a == acc + s[i] IN SatSum(s, i + 1, IF a >= PN_INF THEN PN_INF ELSE a)

RECURSIVE MinFrom(_, _, _)
MinFrom(s, i, acc) ==
    IF i > Len(s) THEN acc ELSE MinFrom(s, i + 1, IF s[i] < acc THEN s[i] ELSE acc)

\* a variant that takes every child with pn = dn = INF for a proven Draw
update_pn_dn_by_numbers(t, n) ==
    LET node == t[n]
        ch == [i \in 1..Len(node.children) |-> t[node.children[i]]]
        pns == [i \in 1..Len(ch) |-> ch[i].pn]
        dns == [i \in 1..Len(ch) |-> ch[i].dn]
        drawn(c) == c.pn >= PN_INF /\ c.dn >= DN_INF
        counted(c) == c.pn = 0 \/ c.dn = 0 \/ drawn(c)
        pn1 == IF node.type = NODE_OR THEN MinFrom(pns, 1, PN_INF) ELSE SatSum(pns, 1, 0)
        dn1 == IF node.type = NODE_OR THEN SatSum(dns, 1, 0) ELSE MinFrom(dns, 1, DN_INF)
        n1 == [node EXCEPT !.pn = pn1, !.dn = dn1]
    IN  IF Len(node.children) = 0 THEN node
        ELSE IF pn1 = 0
          THEN [n1 EXCEPT !.result = RESULT_EXACT_WIN, !.is_proven = TRUE]
        ELSE IF dn1 = 0
          THEN [n1 EXCEPT !.result = RESULT_EXACT_LOSE, !.is_proven = TRUE]
        ELSE IF (\A i \in 1..Len(ch) : counted(ch[i])) /\ (\E i \in 1..Len(ch) : drawn(ch[i]))
          THEN [n1 EXCEPT !.result = RESULT_EXACT_DRAW, !.is_proven = TRUE,
                          !.pn = PN_INF, !.dn = DN_INF]
        ELSE n1

RECURSIVE PlainSum(_, _)
PlainSum(s, i) == IF i > Len(s) THEN 0 ELSE s[i] + PlainSum(s, i + 1)

\* a variant whose sums do not saturate at INF
update_pn_dn_unsaturated(t, n) ==
    LET node == t[n]
        ch == [i \in 1..Len(node.children) |-> t[node.children[i]]]
        pns == [i \in 1..Len(ch) |-> ch[i].pn]
        dns == [i \in 1..Len(ch) |-> ch[i].dn]
        provenDraw(c) == c.pn # 0 /\ c.dn # 0 /\ c.is_proven /\ c.result = RESULT_EXACT_DRAW
        counted(c) == c.pn = 0 \/ c.dn = 0 \/ provenDraw(c)
        total_proven_all == \A i \in 1..Len(ch) : counted(ch[i])
        has_proven_draw == \E i \in 1..Len(ch) : provenDraw(ch[i])
        pn1 == IF node.type = NODE_OR THEN MinFrom(pns, 1, PN_INF) ELSE PlainSum(pns, 1)
        dn1 == IF node.type = NODE_OR THEN PlainSum(dns, 1) ELSE MinFrom(dns, 1, DN_INF)
        n1 == [node EXCEPT !.pn = pn1, !.dn = dn1]
        win == [n1 EXCEPT !.result = RESULT_EXACT_WIN, !.is_proven = TRUE]
        lose == [n1 EXCEPT !.result = RESULT_EXACT_LOSE, !.is_proven = TRUE]
        draw == [n1 EXCEPT !.result = RESULT_EXACT_DRAW, !.is_proven = TRUE,
                           !.pn = PN_INF, !.dn = DN_INF]
    IN  IF Len(node.children) = 0 THEN node
        ELSE IF node.type = NODE_OR
          THEN IF pn1 = 0 THEN win
               ELSE IF dn1 = 0 THEN lose
               ELSE IF total_proven_all /\ has_proven_draw THEN draw
               ELSE n1
          ELSE IF dn1 = 0 THEN lose
               ELSE IF pn1 = 0 THEN win
               ELSE IF total_proven_all /\ has_proven_draw THEN draw
               ELSE n1

\* the node n of tree t after update_pn_dn(n)
update_pn_dn(t, n) ==
    LET node == t[n]
        ch == [i \in 1..Len(node.children) |-> t[node.children[i]]]
        pns == [i \in 1..Len(ch) |-> ch[i].pn]
        dns == [i \in 1..Len(ch) |-> ch[i].dn]
        provenDraw(c) == c.pn # 0 /\ c.dn # 0 /\ c.is_proven /\ c.result = RESULT_EXACT_DRAW
        counted(c) == c.pn = 0 \/ c.dn = 0 \/ provenDraw(c)
        total_proven_all == \A i \in 1..Len(ch) : counted(ch[i])
        has_proven_draw == \E i \in 1..Len(ch) : provenDraw(ch[i])
        pn1 == IF node.type = NODE_OR THEN MinFrom(pns, 1, PN_INF) ELSE SatSum(pns, 1, 0)
        dn1 == IF node.type = NODE_OR THEN SatSum(dns, 1, 0) ELSE MinFrom(dns, 1, DN_INF)
        n1 == [node EXCEPT !.pn = pn1, !.dn = dn1]
        win == [n1 EXCEPT !.result = RESULT_EXACT_WIN, !.is_proven = TRUE]
        lose == [n1 EXCEPT !.result = RESULT_EXACT_LOSE, !.is_proven = TRUE]
        draw == [n1 EXCEPT !.result = RESULT_EXACT_DRAW, !.is_proven = TRUE,
                           !.pn = PN_INF, !.dn = DN_INF]
    IN  IF Len(node.children) = 0 THEN node
        ELSE IF node.type = NODE_OR
          THEN IF pn1 = 0 THEN win
               ELSE IF dn1 = 0 THEN lose
               ELSE IF total_proven_all /\ has_proven_draw THEN draw
               ELSE n1
          ELSE IF dn1 = 0 THEN lose
               ELSE IF pn1 = 0 THEN win
               ELSE IF total_proven_all /\ has_proven_draw THEN draw
               ELSE n1

\* the priority select_best_child_with_priority gives child c of a node of type ty
SelectPriority(ty, c) ==
    IF ty = NODE_OR THEN (PN_INF - c.pn) + c.eval_score
    ELSE (DN_INF - c.dn) - c.eval_score

\* index (1-based) of the first child of maximal priority; 0 for no child
RECURSIVE ArgMaxFrom(_, _, _, _)
ArgMaxFrom(prios, i, best_idx, best_priority) ==
    IF i > Len(prios) THEN best_idx
    ELSE IF prios[i] > best_priority
      THEN ArgMaxFrom(prios, i + 1, i, prios[i])
      ELSE ArgMaxFrom(prios, i + 1, best_idx, best_priority)

select_best_child_with_priority(t, n) ==
    LET node == t[n]
        prios == [i \in 1..Len(node.children) |->
                     SelectPriority(node.type, t[node.children[i]])]
    IN  ArgMaxFrom(prios, 1, 0, INT_MIN)

\* the priority the spawn sites give child c of a node of type ty
SpawnPriority(ty, c) ==
    IF ty = NODE_OR THEN ((PN_INF - c.pn) \div 1000) + c.eval_score
    ELSE ((DN_INF - c.dn) \div 1000) - c.eval_score

(***************************************************************************)
(* Node expansion and terminal leaves                                      *)
(***************************************************************************)
\* a freshly allocated child for position p
NewChild(g, p, ty, depth) ==
    [ZeroNode EXCEPT !.pos = p, !.type = ty, !.depth = depth, !.pn = 1, !.dn = 1,
                     !.eval_score = g.pos[p].ev]

\* the tree after expand_node_with_evaluation(n): children are allocated from
\* the node pool (appended) in descending order of eval_score; a position where
\* only the opponent can move gets the single pass child; a finished position
\* keeps children = NULL
expand_node_with_evaluation(g, t, n) ==
    LET node == t[n]
        gp == g.pos[node.pos]
        ct == OtherType(node.type)
        base == Len(t)
    IN  IF Len(gp.kids) = 0
          THEN IF gp.pass = 0 THEN t
               ELSE [Append(t, NewChild(g, gp.pass, ct, node.depth))
                        EXCEPT ![n].children = << base + 1 >>]
          ELSE LET order == PqOrder([i \in 1..Len(gp.kids) |-> g.pos[gp.kids[i]].ev])
                   kidsN == [i \in 1..Len(order) |->
                                NewChild(g, gp.kids[order[i]], ct, node.depth - 1)]
               IN  [t \o kidsN EXCEPT ![n].children = [i \in 1..Len(order) |-> base + i]]

\* a variant that reads the score of every leaf as an OR node does
TerminalNodeAsOr(g, node) ==
    LET score == FinalScore(g, node.pos)
    IN  IF score > 0
          THEN [node EXCEPT !.result = RESULT_EXACT_WIN, !.pn = 0, !.dn = DN_INF,
                            !.is_proven = TRUE]
        ELSE IF score < 0
          THEN [node EXCEPT !.result = RESULT_EXACT_LOSE, !.pn = PN_INF, !.dn = 0,
                            !.is_proven = TRUE]
        ELSE [node EXCEPT !.result = RESULT_EXACT_DRAW, !.pn = PN_INF, !.dn = DN_INF,
                          !.is_proven = TRUE]

\* pn, dn and result of a finished position (dfpn_solve_node, n_children == 0)
TerminalNode(g, node) ==
    LET score == FinalScore(g, node.pos)
        win == [node EXCEPT !.result = RESULT_EXACT_WIN, !.pn = 0, !.dn = DN_INF,
                            !.is_proven = TRUE]
        lose == [node EXCEPT !.result = RESULT_EXACT_LOSE, !.pn = PN_INF, !.dn = 0,
                             !.is_proven = TRUE]
        draw == [node EXCEPT !.result = RESULT_EXACT_DRAW, !.pn = PN_INF, !.dn = DN_INF,
                             !.is_proven = TRUE]
    IN  IF node.type = NODE_OR
          THEN IF score > 0 THEN win ELSE IF score < 0 THEN lose ELSE draw
          ELSE IF score > 0 THEN lose ELSE IF score < 0 THEN win ELSE draw

(***************************************************************************)
(* SharedTaskArray, seen through its live window tasks[head .. tail-1]     *)
(***************************************************************************)
\* shared_array_push of each task of ts in turn; a push into a full ring fails
RECURSIVE SharedPushAll(_, _, _)
SharedPushAll(sa, ts, i) ==
    IF i > Len(ts) THEN sa
    ELSE SharedPushAll(IF Len(sa) >= SHARED_ARRAY_SIZE THEN sa ELSE Append(sa, ts[i]),
                       ts, i + 1)

(***************************************************************************)
(* Spawn sites inside dfpn_solve_node                                      *)
(***************************************************************************)
\* the children (indices into node.children) from position `from` on that are
\* not proven Win/Lose
RECURSIVE Unproven(_, _, _)
Unproven(t, ch, i) ==
    IF i > Len(ch) THEN << >>
    ELSE (IF t[ch[i]].pn = 0 \/ t[ch[i]].dn = 0 THEN << >> ELSE << i >>)
         \o Unproven(t, ch, i + 1)

Take(s, k) == SubSeq(s, 1, Min(k, Len(s)))

SubTask(c, root_move, priority, generation) ==
    [pos |-> c.pos, root_move |-> root_move, priority |-> priority,
     eval_score |-> c.eval_score, is_root_task |-> FALSE, depth |-> c.depth,
     node_type |-> c.type, generation |-> generation]

\* EARLY SPAWN: the subtasks dfpn_solve_node pushes into the SharedTaskArray
\* before its loop, given the LocalHeap size, the busy count and the ring usage
EarlySpawn(t, n, local_size, busy_count, total_workers, shared_usage, min_depth) ==
    LET node == t[n]
        nc == Len(node.children)
        has_idle == busy_count < total_workers
        \* idle_rate = 1 - busy/total_workers, compared as a fraction
        idleOver(num, den) == (total_workers - busy_count) * den > num * total_workers
        local_heap_needs_fill == local_size < CHUNK_SIZE
        shared_has_space == shared_usage * 10 < 7 * SHARED_ARRAY_SIZE
        max_early_spawn ==
            IF local_heap_needs_fill THEN (IF nc - 1 > 15 THEN 15 ELSE nc - 1)
            ELSE IF idleOver(9, 10) THEN 5 ELSE IF idleOver(7, 10) THEN 3 ELSE 2
        cand == Unproven(t, node.children, 2)
        room == Min(max_early_spawn, SHARED_ARRAY_SIZE - shared_usage)
    IN  IF nc > 1 /\ shared_has_space
           /\ (local_heap_needs_fill \/ (has_idle /\ idleOver(1, 2))
               \/ node.depth >= min_depth)
          THEN [k \in 1..Len(Take(cand, room)) |->
                   LET c == t[node.children[cand[k]]]
                   IN  SubTask(c, 0, SpawnPriority(node.type, c) + 4000, 3)]
          ELSE << >>

\* loop iterations between two mid-search spawn checks
MID_SPAWN_LOOPS == 50

\* MID-SEARCH SPAWN: at most two subtasks for unproven, deep enough children
MidSpawn(t, n, busy_count, total_workers, shared_usage, min_depth) ==
    LET node == t[n]
        has_idle == busy_count < total_workers
        unp == Unproven(t, node.children, 1)
        cand == SelectSeq(unp, LAMBDA i :
                    ~(t[node.children[i]].depth < min_depth \div 2))
        room == Min(2, SHARED_ARRAY_SIZE - shared_usage)
    IN  IF has_idle /\ node.pn > 0 /\ node.dn > 0
          THEN [k \in 1..Len(Take(cand, room)) |->
                   LET c == t[node.children[cand[k]]]
                   IN  SubTask(c, 0, SpawnPriority(node.type, c) + 3000, 5)]
          ELSE << >>

(***************************************************************************)
(* GlobalChunkQueue: a binary max-heap of chunks on top_priority, with the *)
(* atomic copy of heap[0].top_priority                                     *)
(***************************************************************************)
EmptyQueue == [heap |-> << >>, top_priority |-> INT_MIN]

RECURSIVE ChunkSiftUp(_, _, _)
ChunkSiftUp(h, i, x) ==
    LET parent == (i - 1) \div 2
    IN  IF i > 0 /\ ~(x.top_priority <= h[parent + 1].top_priority)
          THEN ChunkSiftUp([h EXCEPT ![i + 1] = h[parent + 1]], parent, x)
          ELSE [h EXCEPT ![i + 1] = x]

RECURSIVE ChunkSiftDown(_, _, _)
ChunkSiftDown(h, i, last) ==
    LET size == Len(h)
        c0 == i * 2 + 1
        child == IF c0 + 1 < size /\ h[c0 + 2].top_priority > h[c0 + 1].top_priority
                   THEN c0 + 1 ELSE c0
    IN  IF c0 < size /\ ~(last.top_priority >= h[child + 1].top_priority)
          THEN ChunkSiftDown([h EXCEPT ![i + 1] = h[child + 1]], child, last)
          ELSE [h EXCEPT ![i + 1] = last]

global_chunk_queue_push(gq, chunk) ==
    IF Len(gq.heap) >= GLOBAL_QUEUE_CAPACITY THEN gq
    ELSE LET h == ChunkSiftUp(Append(gq.heap, chunk), Len(gq.heap), chunk)
         IN  [heap |-> h, top_priority |-> h[1].top_priority]

\* a variant that does not write INT_MIN when the last chunk is popped
global_chunk_queue_pop_stale(gq) ==
    IF Len(gq.heap) = 1 THEN [heap |-> << >>, top_priority |-> gq.top_priority]
    ELSE LET h == ChunkSiftDown(SubSeq(gq.heap, 1, Len(gq.heap) - 1), 0,
                                gq.heap[Len(gq.heap)])
         IN  [heap |-> h, top_priority |-> h[1].top_priority]

\* the queue after global_chunk_queue_pop of a non-empty queue (gq.heap[1] is
\* the chunk handed out)
global_chunk_queue_pop(gq) ==
    IF Len(gq.heap) = 1 THEN EmptyQueue
    ELSE LET h == ChunkSiftDown(SubSeq(gq.heap, 1, Len(gq.heap) - 1), 0,
                                gq.heap[Len(gq.heap)])
         IN  [heap |-> h, top_priority |-> h[1].top_priority]

\* k times local_heap_pop: the popped tasks in order, and the heap left
RECURSIVE PopMany(_, _, _)
PopMany(lh, k, acc) ==
    IF k = 0 \/ Len(lh) = 0 THEN [tasks |-> acc, lh |-> lh]
    ELSE PopMany(local_heap_pop(lh), k - 1, Append(acc, lh[1]))

\* a variant that does not set the best task aside: the chunk takes the
\* CHUNK_SIZE best tasks
export_top_chunk_best_too(lh, gq) ==
    IF Len(lh) < CHUNK_SIZE + 1 THEN [lh |-> lh, gq |-> gq]
    ELSE LET pm == PopMany(lh, CHUNK_SIZE, << >>)
         IN  [lh |-> pm.lh,
              gq |-> global_chunk_queue_push(gq,
                         [tasks |-> pm.tasks,
                          top_priority |-> pm.tasks[1].priority])]

\* export_top_chunk: keeps the best task, moves the next CHUNK_SIZE to a chunk
export_top_chunk(lh, gq) ==
    IF Len(lh) < CHUNK_SIZE + 1 THEN [lh |-> lh, gq |-> gq]
    ELSE LET best == lh[1]
             pm == PopMany(local_heap_pop(lh), CHUNK_SIZE, << >>)
             lh1 == local_heap_push(pm.lh, best)
         IN  IF Len(pm.tasks) > 0
               THEN [lh |-> lh1,
                     gq |-> global_chunk_queue_push(gq,
                                [tasks |-> pm.tasks,
                                 top_priority |-> pm.tasks[1].priority])]
               ELSE [lh |-> lh1, gq |-> gq]

RECURSIVE ExportWhile(_, _)
ExportWhile(lh, gq) ==
    LET global_top == gq.top_priority
        local_top == IF Len(lh) > 0 THEN lh[1].priority ELSE INT_MIN
    IN  IF Len(lh) >= CHUNK_SIZE + 1 /\ (global_top = INT_MIN \/ local_top >= global_top)
          THEN LET e == export_top_chunk(lh, gq) IN ExportWhile(e.lh, e.gq)
          ELSE [lh |-> lh, gq |-> gq]

check_and_export(lh, gq) ==
    IF Len(lh) < LOCAL_EXPORT_THRESHOLD THEN [lh |-> lh, gq |-> gq]
    ELSE ExportWhile(lh, gq)

\* import_chunk_from_global on a non-empty queue: the first task goes to the
\* caller, the others into the LocalHeap
import_chunk_from_global(lh, gq) ==
    LET chunk == gq.heap[1]
    IN  [task |-> chunk.tasks[1],
         lh |-> PushAll(lh, chunk.tasks, 2),
         gq |-> global_chunk_queue_pop(gq)]

\* pop-and-share while more than one task is left and the ring has room
\* (share_remaining_tasks, and the idle-driven export of spawn_child_tasks)
RECURSIVE share_remaining_tasks(_, _)
share_remaining_tasks(lh, sa) ==
    IF Len(lh) > 1 /\ Len(sa) < SHARED_ARRAY_SIZE
      THEN share_remaining_tasks(local_heap_pop(lh), Append(sa, lh[1]))
      ELSE [lh |-> lh, sa |-> sa]

\* is_fast_sharing_mode: an idle worker exists, or not every worker is active
is_fast_sharing_mode(busy_count, active, total) ==
    busy_count < total \/ active < total

\* get_next_task_hybrid: ok is FALSE when no tier has a task
get_next_task_hybrid(lh, sa, gq, fast_sharing) ==
    LET none == [ok |-> FALSE, task |-> NoTask, lh |-> lh, sa |-> sa, gq |-> gq]
        fromLocal == [ok |-> TRUE, task |-> lh[1], lh |-> local_heap_pop(lh),
                      sa |-> sa, gq |-> gq]
        fromShared == [ok |-> TRUE, task |-> sa[1], lh |-> lh, sa |-> Tail(sa), gq |-> gq]
        fromGlobal == LET im == import_chunk_from_global(lh, gq)
                      IN  [ok |-> TRUE, task |-> im.task, lh |-> im.lh, sa |-> sa,
                           gq |-> im.gq]
        local_top == IF Len(lh) > 0 THEN lh[1].priority ELSE INT_MIN
    IN  IF fast_sharing
          THEN IF Len(lh) > 0 THEN fromLocal
               ELSE IF Len(sa) > 0 THEN fromShared ELSE none
          ELSE IF gq.top_priority > local_top /\ Len(gq.heap) > 0 THEN fromGlobal
               ELSE IF Len(lh) > 0 THEN fromLocal
               ELSE IF Len(gq.heap) > 0 THEN fromGlobal
               ELSE IF Len(sa) > 0 THEN fromShared ELSE none

(***************************************************************************)
(* spawn_child_tasks                                                       *)
(***************************************************************************)
\* global.spawn_threshold
SPAWN_THRESHOLD == 0 - 1000

\* the spawn loop from child i on: the first spawned subtask of a fast-sharing
\* worker goes to its LocalHeap, the later ones to the SharedTaskArray; outside
\* fast sharing all go to the LocalHeap.  A push that finds no room spawns
\* nothing.
RECURSIVE SpawnLoop(_, _, _, _, _, _, _, _, _, _)
SpawnLoop(t, node, task, best_priority, limit, fast_sharing, i, spawned, lh, sa) ==
    IF i > Len(node.children) \/ ~(spawned < limit) THEN [lh |-> lh, sa |-> sa]
    ELSE LET c == t[node.children[i]]
             priority == SpawnPriority(node.type, c)
             subtask == SubTask(c, task.root_move,
                                priority + 5000 - task.generation * 1000,
                                task.generation + 1)
             skip == \/ c.pn = 0 \/ c.dn = 0
                     \/ (priority * 10 < best_priority * 8 /\ priority < SPAWN_THRESHOLD)
             toLocal == ~fast_sharing \/ spawned = 0
             ok == IF toLocal THEN Len(lh) < LOCAL_HEAP_CAPACITY
                   ELSE Len(sa) < SHARED_ARRAY_SIZE
         IN  IF skip \/ ~ok
               THEN SpawnLoop(t, node, task, best_priority, limit, fast_sharing,
                              i + 1, spawned, lh, sa)
               ELSE SpawnLoop(t, node, task, best_priority, limit, fast_sharing,
                              i + 1, spawned + 1,
                              IF toLocal THEN local_heap_push(lh, subtask) ELSE lh,
                              IF toLocal THEN sa ELSE Append(sa, subtask))

RECURSIVE MaxPriority(_, _, _, _)
MaxPriority(t, node, i, best) ==
    IF i > Len(node.children) THEN best
    ELSE LET p == SpawnPriority(node.type, t[node.children[i]])
         IN  MaxPriority(t, node, i + 1, IF p > best THEN p ELSE best)

\* spawn_child_tasks(worker, node n, parent task): the worker record (LocalHeap,
\* has_entered_chunk_mode, nodes_at_last_export_check), the SharedTaskArray and
\* the GlobalChunkQueue afterwards
spawn_child_tasks(me, n, task, busy_count, active, total, sa, gq) ==
    LET node == me.tree[n]
        lh == me.local_heap
        generation == task.generation
        idleOver(num, den) == (total - busy_count) * den > num * total
        has_idle == busy_count < total
        max_gen == DEFAULT_SPAWN_MAX_GENERATION
        limit == DEFAULT_SPAWN_LIMIT_PER_NODE
        min_depth == DEFAULT_SPAWN_MIN_DEPTH
        local_heap_needs_fill == Len(lh) < CHUNK_SIZE
        shared_array_has_space == Len(sa) * 10 < 8 * SHARED_ARRAY_SIZE
        par == IF local_heap_needs_fill /\ shared_array_has_space
                 THEN [stop |-> FALSE, gen |-> max_gen + 20, limit |-> 50,
                       depth |-> IF min_depth > 3 THEN min_depth \div 2 ELSE 2]
               ELSE IF local_heap_needs_fill
                 THEN [stop |-> TRUE, gen |-> max_gen, limit |-> limit, depth |-> min_depth]
               ELSE IF idleOver(9, 10)
                 THEN [stop |-> FALSE, gen |-> max_gen + 10, limit |-> limit * 5,
                       depth |-> min_depth \div 2]
               ELSE IF idleOver(7, 10)
                 THEN [stop |-> FALSE, gen |-> max_gen + 5, limit |-> limit * 3,
                       depth |-> (min_depth * 2) \div 3]
               ELSE IF idleOver(1, 2)
                 THEN [stop |-> FALSE, gen |-> max_gen + 2, limit |-> limit * 2,
                       depth |-> min_depth]
               ELSE [stop |-> FALSE, gen |-> max_gen, limit |-> limit, depth |-> min_depth]
        blocked == \/ Len(node.children) = 0
                   \/ par.stop
                   \/ (generation >= par.gen /\ ~has_idle /\ Len(lh) >= CHUNK_SIZE)
                   \/ node.depth < par.depth
        fast_sharing == is_fast_sharing_mode(busy_count, active, total)
        sp == SpawnLoop(me.tree, node, task, MaxPriority(me.tree, node, 1, 0 - 999999),
                        par.limit, fast_sharing, 1, 0, lh, sa)
        last == IF me.has_entered_chunk_mode THEN me.nodes_at_last_export_check
                ELSE me.nodes
        \* worker->nodes - nodes_at_last_export_check in uint64_t: worker->nodes
        \* restarts from 0 with every task, so the difference wraps
        due == me.nodes < last \/ me.nodes - last >= 1000
        idle == IF due /\ has_idle /\ Len(sp.lh) > 1
                  THEN share_remaining_tasks(sp.lh, sp.sa) ELSE sp
        ex == IF due /\ ~fast_sharing THEN check_and_export(idle.lh, gq)
              ELSE [lh |-> idle.lh, gq |-> gq]
    IN  IF blocked THEN [me |-> me, sa |-> sa, gq |-> gq]
        ELSE [me |-> [me EXCEPT !.local_heap = ex.lh,
                                !.has_entered_chunk_mode = TRUE,
                                !.nodes_at_last_export_check =
                                    IF due THEN me.nodes ELSE last],
              sa |-> idle.sa, gq |-> ex.gq]

(***************************************************************************)
(* Result of a task from the pn/dn of its root                             *)
(***************************************************************************)
\* process_task: "Determine result from pn/dn"
TaskResult(node) ==
    LET asOr == node.type = NODE_OR
    IN  IF node.pn = 0
          THEN (IF asOr THEN RESULT_EXACT_WIN ELSE RESULT_EXACT_LOSE)
        ELSE IF node.dn = 0
          THEN (IF asOr THEN RESULT_EXACT_LOSE ELSE RESULT_EXACT_WIN)
        ELSE IF node.pn >= PN_INF
          THEN (IF node.dn >= DN_INF THEN RESULT_EXACT_DRAW
                ELSE IF asOr THEN RESULT_EXACT_LOSE ELSE RESULT_EXACT_WIN)
        ELSE IF node.dn >= DN_INF
          THEN (IF asOr THEN RESULT_EXACT_WIN ELSE RESULT_EXACT_LOSE)
        ELSE RESULT_UNKNOWN

\* process_root_task_with_split, root with children
SplitResult(node) ==
    LET asOr == node.type = NODE_OR
    IN  IF node.pn = 0
          THEN (IF asOr THEN RESULT_EXACT_WIN ELSE RESULT_EXACT_LOSE)
        ELSE IF node.dn = 0
          THEN (IF asOr THEN RESULT_EXACT_LOSE ELSE RESULT_EXACT_WIN)
        ELSE IF node.pn >= PN_INF /\ node.dn >= DN_INF THEN RESULT_EXACT_DRAW
        ELSE RESULT_UNKNOWN

\* process_root_task_with_split, root without children
FallbackResult(node) ==
    LET asOr == node.type = NODE_OR
    IN  IF node.pn = 0
          THEN (IF asOr THEN RESULT_EXACT_WIN ELSE RESULT_EXACT_LOSE)
        ELSE IF node.dn = 0
          THEN (IF asOr THEN RESULT_EXACT_LOSE ELSE RESULT_EXACT_WIN)
        ELSE RESULT_UNKNOWN

(***************************************************************************)
(* solve_endgame: the root moves and the aggregation of their results      *)
(***************************************************************************)
\* number of legal root moves
NMoves(g) == Len(g.pos[1].kids)

\* global.move_list and global.move_evals, in ascending square order
MoveList(g) == g.sq

MoveEvals(g) == [i \in 1..NMoves(g) |-> g.pos[g.pos[1].kids[i]].ev]

\* index of root move m in move_list, 0 when it is not there (move_idx = -1)
MoveIdx(g, m) ==
    IF \E i \in 1..NMoves(g) : MoveList(g)[i] = m
      THEN CHOOSE i \in 1..NMoves(g) :
               MoveList(g)[i] = m /\ \A j \in 1..(i - 1) : MoveList(g)[j] # m
      ELSE 0

RootTask(g, i) ==
    LET p == g.pos[1].kids[i]
    IN  [pos |-> p, root_move |-> MoveList(g)[i], priority |-> g.pos[p].ev,
         eval_score |-> g.pos[p].ev, is_root_task |-> TRUE,
         depth |-> Empties(g, 1) - 1, node_type |-> NODE_AND, generation |-> 0]

\* the scan "Determine final result" from index i on
RECURSIVE AggregateFrom(_, _, _, _, _, _, _)
AggregateFrom(results, list, evals, i, final_result, final_best_move, best_eval) ==
    IF i > Len(results)
      THEN [final_result |-> final_result, final_best_move |-> final_best_move]
    ELSE IF results[i] = RESULT_EXACT_WIN
      THEN [final_result |-> RESULT_EXACT_WIN, final_best_move |-> list[i]]
    ELSE LET isDraw == results[i] = RESULT_EXACT_DRAW /\ final_result # RESULT_EXACT_WIN
             r1 == IF isDraw THEN RESULT_EXACT_DRAW ELSE final_result
             b1 == IF isDraw /\ final_best_move = -1 THEN list[i] ELSE final_best_move
             better == evals[i] > best_eval
             b2 == IF better /\ r1 = RESULT_UNKNOWN THEN list[i] ELSE b1
         IN  AggregateFrom(results, list, evals, i + 1, r1, b2,
                           IF better THEN evals[i] ELSE best_eval)

\* an aggregation that looks at the root-move table only, not at found_win
Aggregate_TableOnly(fw, wm, results, list, evals) ==
    LET n_moves == Len(results)
        lose_count == Cardinality({i \in 1..n_moves : results[i] = RESULT_EXACT_LOSE})
        scan == AggregateFrom(results, list, evals, 1, RESULT_UNKNOWN, -1, 0 - 1000000)
    IN  IF scan.final_result = RESULT_UNKNOWN /\ lose_count = n_moves
          THEN [scan EXCEPT !.final_result = RESULT_EXACT_LOSE]
          ELSE scan

\* an aggregation that reports Lose as soon as one root move is proven Lose
Aggregate_AnyLose(fw, wm, results, list, evals) ==
    LET n_moves == Len(results)
        lose_count == Cardinality({i \in 1..n_moves : results[i] = RESULT_EXACT_LOSE})
        scan == AggregateFrom(results, list, evals, 1, RESULT_UNKNOWN, -1, 0 - 1000000)
    IN  IF fw THEN [final_result |-> RESULT_EXACT_WIN, final_best_move |-> wm]
        ELSE IF scan.final_result = RESULT_UNKNOWN /\ lose_count > 0
          THEN [scan EXCEPT !.final_result = RESULT_EXACT_LOSE]
          ELSE scan

\* "Aggregate results": final_result and final_best_move of solve_endgame
Aggregate(fw, wm, results, list, evals) ==
    LET n_moves == Len(results)
        lose_count == Cardinality({i \in 1..n_moves : results[i] = RESULT_EXACT_LOSE})
        scan == AggregateFrom(results, list, evals, 1, RESULT_UNKNOWN, -1, 0 - 1000000)
        agg == IF fw THEN [final_result |-> RESULT_EXACT_WIN, final_best_move |-> wm]
               ELSE IF scan.final_result = RESULT_UNKNOWN /\ lose_count = n_moves
                 THEN [scan EXCEPT !.final_result = RESULT_EXACT_LOSE]
               ELSE scan
    IN  IF agg.final_best_move = -1 /\ n_moves > 0
          THEN [agg EXCEPT !.final_best_move = list[1]]
          ELSE agg

(***************************************************************************)
(* State                                                                   *)
(***************************************************************************)
VARIABLES
    game,             \* the position tree solve_endgame is called on
    time_limit,       \* 0: no time limit
    num_threads,
    pc_main,          \* where solve_endgame is
    final_result,     \* what solve_endgame returns
    best_move,        \* what the caller finds in *best_move after the call
    tt,               \* TranspositionTable entries
    shared_array,     \* SharedTaskArray, tasks[head .. tail-1]
    global_chunk_queue,
    busy,             \* worker_state.busy_bitmap, as the set of set bits
    active_workers,
    move_results,
    found_win,
    winning_move,
    shutdown,
    tasks_completed,
    workers           \* per worker thread: its locals and its Worker struct

vars == << game, time_limit, num_threads, pc_main, final_result, best_move, tt,
           shared_array, global_chunk_queue, busy, active_workers, move_results,
           found_win, winning_move, shutdown, tasks_completed, workers >>

inputs == << game, time_limit, num_threads >>
orch == << pc_main, final_result, best_move >>
flags == << found_win, winning_move, shutdown >>
results == << move_results, tasks_completed >>
bitmap == << busy, active_workers >>

WorkerIds == 1..MaxThreads

\* values an int that was never assigned may hold
UninitInts == {-1, 0, 63, 64}

\* a Worker of the calloc'ed array, before its thread exists
ZeroWorker ==
    [pc |-> "none", task |-> NoTask, local_heap |-> << >>, tree |-> << >>,
     stack |-> << >>, ret |-> "none", result |-> RESULT_UNKNOWN,
     should_abort_task |-> FALSE, current_task_priority |-> 0, is_busy |-> FALSE,
     task_completed |-> FALSE, nodes |-> 0, has_entered_chunk_mode |-> FALSE,
     nodes_at_last_export_check |-> 0,
     won_cas |-> FALSE]  \* its atomic_cas_bool(&found_win, false, true) succeeded

Init ==
    /\ game \in Games
    /\ time_limit \in {0, 1}
    /\ num_threads \in 1..MaxThreads
    /\ pc_main = "init"
    /\ final_result = RESULT_UNKNOWN
    /\ best_move = -1
    /\ tt = << >>
    /\ shared_array = << >>
    /\ global_chunk_queue = EmptyQueue
    /\ busy = {}
    /\ active_workers = 0
    /\ move_results = [i \in 1..NMoves(game) |-> RESULT_UNKNOWN]
    /\ found_win = FALSE
    /\ winning_move = 0
    /\ shutdown = FALSE
    /\ tasks_completed = 0
    /\ workers = [w \in WorkerIds |-> ZeroWorker]

(***************************************************************************)
(* solve_endgame, the orchestrator                                         *)
(***************************************************************************)
\* up to the launch of the worker threads; a position without a legal move
\* returns RESULT_UNKNOWN at once and leaves *best_move alone: the caller,
\* which never initialised it, reads an arbitrary value
SolveStart ==
    /\ pc_main = "init"
    /\ IF NMoves(game) = 0
         THEN /\ pc_main' = "done"
              /\ final_result' = RESULT_UNKNOWN
              /\ best_move' \in UninitInts
              /\ UNCHANGED << shared_array, workers >>
         ELSE /\ pc_main' = "wait"
              /\ shared_array' = SharedPushAll(shared_array,
                                     [i \in 1..NMoves(game) |-> RootTask(game, i)], 1)
              /\ workers' = [w \in WorkerIds |->
                                IF w <= num_threads
                                  THEN [workers[w] EXCEPT !.pc = "created"]
                                  ELSE workers[w]]
              /\ UNCHANGED << final_result, best_move >>
    /\ UNCHANGED << inputs, tt, global_chunk_queue, bitmap, results, flags >>

\* one turn of the wait loop that leaves it: a flag is up, or every root move
\* is counted completed
MainPoll ==
    /\ pc_main = "wait"
    /\ shutdown \/ found_win \/ tasks_completed >= NMoves(game)
    /\ shutdown' = TRUE
    /\ pc_main' = "join"
    /\ UNCHANGED << inputs, final_result, best_move, tt, shared_array,
                    global_chunk_queue, bitmap, results, found_win, winning_move,
                    workers >>

\* one turn of the wait loop that finds the time limit elapsed
MainTimeout ==
    /\ pc_main = "wait"
    /\ ~(shutdown \/ found_win \/ tasks_completed >= NMoves(game))
    /\ time_limit > 0
    /\ shutdown' = TRUE
    /\ pc_main' = "join"
    /\ UNCHANGED << inputs, final_result, best_move, tt, shared_array,
                    global_chunk_queue, bitmap, results, found_win, winning_move,
                    workers >>

\* aggregation without waiting for the worker threads
NotJoined == TRUE

\* pthread_join(workers[i].thread) has returned for every worker
Joined == \A w \in 1..num_threads : workers[w].pc = "done"

\* pthread_join of every worker, then "Aggregate results"
MainJoin ==
    /\ pc_main = "join"
    /\ Joined
    /\ LET agg == Aggregate(found_win, winning_move, move_results,
                            MoveList(game), MoveEvals(game))
       IN  /\ final_result' = agg.final_result
           /\ best_move' = agg.final_best_move
    /\ pc_main' = "done"
    /\ UNCHANGED << inputs, tt, shared_array, global_chunk_queue, bitmap, results,
                    flags, workers >>

(***************************************************************************)
(* worker_thread                                                           *)
(***************************************************************************)
busy_count == Cardinality(busy)

Set(w, rec) == [workers EXCEPT ![w] = rec]

\* the thread starts: "Mark worker as active"
WorkerStart(w) ==
    /\ workers[w].pc = "created"
    /\ active_workers' = active_workers + 1
    /\ workers' = Set(w, [workers[w] EXCEPT !.pc = "loop"])
    /\ UNCHANGED << inputs, orch, tt, shared_array, global_chunk_queue, busy,
                    results, flags >>

\* a loop that ends on found_win only
stop_on_win_only(sd, fw) == fw

\* the worker loop ends: !(!shutdown && !found_win)
stop_requested(sd, fw) == sd \/ fw

\* while (!shutdown && !found_win)
WorkerLoop(w) ==
    /\ workers[w].pc = "loop"
    /\ workers' = Set(w, [workers[w] EXCEPT
                             !.pc = IF stop_requested(shutdown, found_win)
                                      THEN "exit" ELSE "get"])
    /\ UNCHANGED << inputs, orch, tt, shared_array, global_chunk_queue, bitmap,
                    results, flags >>

\* get_next_task_hybrid, and the busy bit: set with a task in hand, cleared
\* without one (the worker then waits and tests the loop condition again)
WorkerGet(w) ==
    LET me == workers[w]
        r == get_next_task_hybrid(me.local_heap, shared_array, global_chunk_queue,
                                  is_fast_sharing_mode(busy_count, active_workers,
                                                       num_threads))
    IN  /\ me.pc = "get"
        /\ shared_array' = r.sa
        /\ global_chunk_queue' = r.gq
        /\ IF r.ok
             THEN /\ busy' = busy \cup {w}
                  /\ workers' = Set(w, [me EXCEPT !.pc = "task", !.task = r.task,
                                                  !.local_heap = r.lh, !.is_busy = TRUE,
                                                  !.nodes = 0])
             ELSE /\ busy' = busy \ {w}
                  /\ workers' = Set(w, [me EXCEPT !.pc = "loop", !.is_busy = FALSE])
        /\ UNCHANGED << inputs, orch, tt, active_workers, results, flags >>

\* after the loop: share_remaining_tasks, "Mark worker as inactive"
WorkerExit(w) ==
    LET me == workers[w]
        sh == share_remaining_tasks(me.local_heap, shared_array)
    IN  /\ me.pc = "exit"
        /\ shared_array' = sh.sa
        /\ active_workers' = active_workers - 1
        /\ workers' = Set(w, [me EXCEPT !.pc = "done", !.local_heap = sh.lh])
        /\ UNCHANGED << inputs, orch, tt, global_chunk_queue, busy, results, flags >>

\* back in worker_thread after process_task: an aborted task goes back to the
\* LocalHeap and a chunk is imported, unless a flag is up
AfterTask(w) ==
    LET me == workers[w]
        lh1 == local_heap_push(me.local_heap, me.task)
        im == import_chunk_from_global(lh1, global_chunk_queue)
    IN  /\ me.pc = "after"
        /\ IF ~me.task_completed /\ ~shutdown /\ ~found_win
             THEN IF Len(global_chunk_queue.heap) > 0
                    THEN /\ global_chunk_queue' = im.gq
                         /\ workers' = Set(w, [me EXCEPT !.pc = "loop",
                                 !.local_heap = local_heap_push(im.lh, im.task)])
                    ELSE /\ workers' = Set(w, [me EXCEPT !.pc = "loop",
                                                         !.local_heap = lh1])
                         /\ UNCHANGED global_chunk_queue
             ELSE /\ workers' = Set(w, [me EXCEPT !.pc = "loop"])
                  /\ UNCHANGED global_chunk_queue
        /\ UNCHANGED << inputs, orch, tt, shared_array, bitmap, results, flags >>

(***************************************************************************)
(* process_task and process_root_task_with_split, up to the search         *)
(***************************************************************************)
Frame(n) == [n |-> n, st |-> "enter", loop_count |-> 0]

\* the root node of a task
TaskRoot(g, task, ty, depth) ==
    [ZeroNode EXCEPT !.pos = task.pos, !.type = ty, !.depth = depth, !.pn = 1, !.dn = 1,
                     !.eval_score = task.eval_score,
                     !.threshold_pn = PN_INF + 1, !.threshold_dn = DN_INF + 1]

\* the subtasks ROOT SPLIT pushes: every unproven child but the best one
SplitSpawn(t, task, best_idx) ==
    LET root == t[1]
        cand == SelectSeq(Unproven(t, root.children, 1), LAMBDA i : i # best_idx)
    IN  [k \in 1..Len(cand) |->
            LET c == t[root.children[cand[k]]]
            IN  SubTask(c, task.root_move, SpawnPriority(root.type, c) + 10000, 1)]

ProcessTask(w) ==
    LET me == workers[w]
        task == me.task
        split == task.is_root_task /\ task.generation = 0
        ty == IF task.is_root_task THEN NODE_AND ELSE task.node_type
        depth == IF task.is_root_task THEN Empties(game, task.pos) ELSE task.depth
        plain == << TaskRoot(game, task, ty, depth) >>
    IN  /\ me.pc = "task"
        /\ \E t1 \in {IF split THEN expand_node_with_evaluation(game, plain, 1)
                                 ELSE plain} :
           \E prios \in {[i \in 1..Len(t1[1].children) |->
                            SpawnPriority(NODE_AND, t1[t1[1].children[i]])]} :
           \E best_idx \in {ArgMaxFrom(prios, 1, 1, INT_MIN)} :
           LET best == t1[1].children[best_idx]
           IN
           IF ~split
             THEN /\ workers' = Set(w, [me EXCEPT !.pc = "solve", !.ret = "finish",
                                           !.tree = plain, !.stack = << Frame(1) >>,
                                           !.current_task_priority = task.priority,
                                           !.should_abort_task = FALSE])
                  /\ UNCHANGED shared_array
             ELSE IF Len(t1[1].children) = 0
               THEN /\ workers' = Set(w, [me EXCEPT !.pc = "solve", !.ret = "fallback",
                                             !.tree = t1, !.stack = << Frame(1) >>])
                    /\ UNCHANGED shared_array
               ELSE /\ shared_array' = SharedPushAll(shared_array,
                                           SplitSpawn(t1, task, best_idx), 1)
                    /\ workers' = Set(w,
                          IF t1[best].pn > 0 /\ t1[best].dn > 0
                            THEN [me EXCEPT !.pc = "solve", !.ret = "split", !.tree = t1,
                                            !.stack = << Frame(best) >>]
                            ELSE [me EXCEPT !.pc = "split", !.tree = t1])
        /\ UNCHANGED << inputs, orch, tt, global_chunk_queue, bitmap, results, flags >>

(***************************************************************************)
(* dfpn_solve_node, one frame of the recursion per stack entry             *)
(***************************************************************************)
\* the worker after the innermost dfpn_solve_node call has returned: the
\* caller's update_pn_dn when the caller is the loop of the parent node,
\* the code after the search otherwise
ReturnFrom(me) ==
    LET st == SubSeq(me.stack, 1, Len(me.stack) - 1)
    IN  IF Len(st) = 0 THEN [me EXCEPT !.stack = st, !.pc = me.ret]
        ELSE LET p == st[Len(st)].n
             IN  [me EXCEPT !.stack = st, !.tree[p] = update_pn_dn(me.tree, p)]

\* from the entry of dfpn_solve_node to the head of its while loop
Enter(w) ==
    LET me == workers[w]
        top == me.stack[Len(me.stack)]
        n == top.n
        me0 == [me EXCEPT !.nodes = @ + 1]
        node == me.tree[n]
        key == hash_position(game, node.pos)
        hit == tt_probe_hit(tt, key, node.depth)
        entry == TTGet(tt, key)
        node1 == IF hit THEN [node EXCEPT !.pn = entry.pn, !.dn = entry.dn,
                                          !.result = entry.result]
                 ELSE node
        \* should_switch_to_global
        abort == IF hit /\ global_chunk_queue.top_priority > me.current_task_priority
                   THEN TRUE ELSE me.should_abort_task
        solved == /\ hit
                  /\ node1.result # RESULT_UNKNOWN
                  /\ \/ node1.pn = 0
                     \/ node1.dn = 0
                     \/ /\ node1.result = RESULT_EXACT_DRAW
                        /\ node1.pn = PN_INF
                        /\ node1.dn = DN_INF
        node2 == IF hit THEN [node1 EXCEPT !.eval_score = entry.eval_score] ELSE node1
        t2 == [me.tree EXCEPT ![n] = node2]
        leaf == TerminalNode(game, node2)
    IN  /\ me.pc = "solve"
        /\ top.st = "enter"
        /\ \E t3 \in {IF Len(node2.children) = 0 /\ ~(found_win \/ shutdown)
                        THEN expand_node_with_evaluation(game, t2, n) ELSE t2},
              elapsed \in BOOLEAN :
              LET spawn == EarlySpawn(t3, n, Len(me.local_heap), busy_count,
                                      num_threads, Len(shared_array),
                                      DEFAULT_SPAWN_MIN_DEPTH)
              IN
              /\ elapsed => (time_limit > 0 /\ me0.nodes % 1024 = 0)
              /\ IF found_win \/ shutdown
                   THEN /\ \E r \in {me0} : workers' = Set(w, ReturnFrom(r))
                        /\ UNCHANGED << tt, shared_array, shutdown >>
                 ELSE IF elapsed
                   THEN /\ shutdown' = TRUE
                        /\ \E r \in {me0} : workers' = Set(w, ReturnFrom(r))
                        /\ UNCHANGED << tt, shared_array >>
                 ELSE IF solved
                   THEN /\ \E r \in {[me0 EXCEPT !.should_abort_task = abort,
                                           !.tree[n] = [node1 EXCEPT !.is_proven = TRUE]]} :
                               workers' = Set(w, ReturnFrom(r))
                        /\ UNCHANGED << tt, shared_array, shutdown >>
                 ELSE IF Len(t3[n].children) = 0
                   THEN /\ tt' = tt_store(tt, key, leaf.depth, leaf.pn, leaf.dn,
                                          leaf.result, leaf.eval_score)
                        /\ \E r \in {[me0 EXCEPT !.should_abort_task = abort,
                                                   !.tree[n] = leaf]} :
                               workers' = Set(w, ReturnFrom(r))
                        /\ UNCHANGED << shared_array, shutdown >>
                 ELSE /\ shared_array' = SharedPushAll(shared_array, spawn, 1)
                      /\ workers' = Set(w,
                             [me0 EXCEPT !.should_abort_task = abort, !.tree = t3,
                                         !.stack[Len(me.stack)].st = "loop"])
                      /\ UNCHANGED << tt, shutdown >>
        /\ UNCHANGED << inputs, orch, global_chunk_queue, bitmap, results, found_win,
                        winning_move >>

\* one test of the while condition of dfpn_solve_node and, when it holds, the
\* body up to the recursive call; when it fails, the tt_store after the loop
Iterate(w) ==
    LET me == workers[w]
        top == me.stack[Len(me.stack)]
        n == top.n
        node == me.tree[n]
        key == hash_position(game, node.pos)
        cond == /\ node.pn > 0 /\ node.dn > 0
                /\ node.pn < PN_INF /\ node.dn < DN_INF
                /\ node.pn < node.threshold_pn /\ node.dn < node.threshold_dn
        lc == top.loop_count + 1
        mid == lc >= MID_SPAWN_LOOPS /\ Len(node.children) > 1
        spawn == IF mid THEN MidSpawn(me.tree, n, busy_count, num_threads,
                                      Len(shared_array), DEFAULT_SPAWN_MIN_DEPTH)
                 ELSE << >>
        ci == select_best_child_with_priority(me.tree, n)
        c == node.children[ci]
        child == me.tree[c]
        child1 == IF node.type = NODE_OR
                    THEN [child EXCEPT
                            !.threshold_pn = node.threshold_dn - node.dn + child.dn,
                            !.threshold_dn = node.threshold_pn]
                    ELSE [child EXCEPT
                            !.threshold_pn = node.threshold_pn,
                            !.threshold_dn = node.threshold_dn - node.dn + child.dn]
        stored == tt_store(tt, key, node.depth, node.pn, node.dn, node.result,
                           node.eval_score)
    IN  /\ me.pc = "solve"
        /\ top.st = "loop"
        /\ IF ~cond
             THEN /\ tt' = stored
                  /\ workers' = Set(w, ReturnFrom(me))
                  /\ UNCHANGED shared_array
           ELSE IF found_win \/ shutdown \/ me.should_abort_task
             THEN /\ workers' = Set(w, ReturnFrom(me))
                  /\ UNCHANGED << tt, shared_array >>
           ELSE IF ci = 0
             THEN /\ tt' = stored
                  /\ shared_array' = SharedPushAll(shared_array, spawn, 1)
                  /\ workers' = Set(w, ReturnFrom(me))
           ELSE /\ shared_array' = SharedPushAll(shared_array, spawn, 1)
                /\ workers' = Set(w,
                       [me EXCEPT !.tree[c] = child1,
                                  !.stack = Append(
                                      [me.stack EXCEPT ![Len(me.stack)].loop_count =
                                           IF mid THEN 0 ELSE lc],
                                      Frame(c))])
                /\ UNCHANGED tt
        /\ UNCHANGED << inputs, orch, global_chunk_queue, bitmap, results, flags >>

(***************************************************************************)
(* process_task and process_root_task_with_split, after the search         *)
(***************************************************************************)
\* process_root_task_with_split, root without children: result, tt_store and
\* "WIN report"; move_results and tasks_completed are not touched
SplitFallback(w) ==
    LET me == workers[w]
        root == me.tree[1]
        result == FallbackResult(root)
        won == result = RESULT_EXACT_WIN /\ ~found_win
    IN  /\ me.pc = "fallback"
        /\ tt' = tt_store(tt, hash_position(game, me.task.pos), root.depth, root.pn,
                          root.dn, result, root.eval_score)
        /\ found_win' = (found_win \/ result = RESULT_EXACT_WIN)
        /\ workers' = Set(w, [me EXCEPT !.pc = IF won THEN "fallback_win" ELSE "after",
                                        !.won_cas = @ \/ won,
                                        !.result = result,
                                        !.tree = << >>, !.task_completed = TRUE])
        /\ UNCHANGED << inputs, orch, shared_array, global_chunk_queue, bitmap,
                        results, winning_move, shutdown >>

\* process_root_task_with_split, root with children: update_pn_dn(root),
\* result and tt_store
SplitFinish(w) ==
    LET me == workers[w]
        root == update_pn_dn(me.tree, 1)
        result == SplitResult(root)
    IN  /\ me.pc = "split"
        /\ tt' = tt_store(tt, hash_position(game, me.task.pos), root.depth, root.pn,
                          root.dn, result, root.eval_score)
        /\ workers' = Set(w, [me EXCEPT !.pc = "report", !.result = result,
                                        !.tree[1] = root])
        /\ UNCHANGED << inputs, orch, shared_array, global_chunk_queue, bitmap,
                        results, flags >>

\* process_task from the return of dfpn_solve_node to the tt_store of the
\* result: the abort for a Global switch, spawn_child_tasks, the result
TaskFinish(w) ==
    LET me == workers[w]
        root == me.tree[1]
        key == hash_position(game, me.task.pos)
        sp == IF Len(root.children) > 0 /\ root.pn > 0 /\ root.dn > 0
                 /\ ~found_win /\ ~shutdown
                THEN spawn_child_tasks(me, 1, me.task, busy_count, active_workers,
                                       num_threads, shared_array, global_chunk_queue)
                ELSE [me |-> me, sa |-> shared_array, gq |-> global_chunk_queue]
        result == TaskResult(root)
    IN  /\ me.pc = "finish"
        /\ IF me.should_abort_task
             THEN /\ tt' = tt_store(tt, key, root.depth, root.pn, root.dn,
                                    RESULT_UNKNOWN, root.eval_score)
                  /\ workers' = Set(w, [me EXCEPT !.pc = "after", !.tree = << >>,
                                                  !.task_completed = FALSE])
                  /\ UNCHANGED << shared_array, global_chunk_queue >>
             ELSE /\ tt' = tt_store(tt, key, root.depth, root.pn, root.dn, result,
                                    root.eval_score)
                  /\ shared_array' = sp.sa
                  /\ global_chunk_queue' = sp.gq
                  /\ workers' = Set(w, [sp.me EXCEPT !.pc = "report",
                                                     !.result = result])
        /\ UNCHANGED << inputs, orch, bitmap, results, flags >>

\* the report of a task's result: move_results, found_win and winning_move,
\* tasks_completed, the retry of an unproven root task, node_pool_reset
\* a plain store in place of the compare-and-swap
store_move_result(table, move_idx, result) ==
    [table EXCEPT ![move_idx] = result]

\* __sync_bool_compare_and_swap(&move_results[move_idx], RESULT_UNKNOWN, result)
cas_move_result(table, move_idx, result) ==
    IF table[move_idx] = RESULT_UNKNOWN
      THEN [table EXCEPT ![move_idx] = result]
      ELSE table

\* a report that counts a root task in tasks_completed whether or not it is
\* proven
ReportCountsUnproven(w) ==
    LET me == workers[w]
        task == me.task
        result == me.result
        move_idx == MoveIdx(game, task.root_move)
        cas == move_idx > 0 /\ move_results[move_idx] = RESULT_UNKNOWN
        retry == IF task.generation = 0
                   THEN [task EXCEPT !.priority = @ - 100, !.generation = 1]
                   ELSE [task EXCEPT !.priority = @ - 100]
        done == [me EXCEPT !.pc = "after", !.tree = << >>, !.task_completed = TRUE]
        won == [me EXCEPT !.pc = "store_win", !.won_cas = TRUE]
    IN  /\ me.pc = "report"
        /\ IF task.is_root_task
             THEN IF move_idx > 0 /\ result # RESULT_UNKNOWN
                    THEN /\ move_results' = cas_move_result(move_results, move_idx, result)
                         /\ found_win' = (found_win \/ result = RESULT_EXACT_WIN)
                         /\ IF result = RESULT_EXACT_WIN /\ ~found_win
                              THEN /\ workers' = Set(w, won)
                                   /\ UNCHANGED tasks_completed
                              ELSE /\ workers' = Set(w, done)
                                   /\ tasks_completed' = tasks_completed + 1
                         /\ UNCHANGED winning_move
                    ELSE /\ workers' = Set(w,
                               IF move_idx > 0 /\ ~found_win /\ ~shutdown
                                 THEN [done EXCEPT !.local_heap =
                                          local_heap_push(me.local_heap, retry)]
                                 ELSE done)
                         /\ tasks_completed' = tasks_completed + 1
                         /\ UNCHANGED << move_results, found_win, winning_move >>
             ELSE IF result = RESULT_EXACT_WIN /\ cas
               THEN /\ move_results' = cas_move_result(move_results, move_idx,
                                                        RESULT_EXACT_WIN)
                    /\ found_win' = TRUE
                    /\ workers' = Set(w, IF ~found_win THEN won ELSE done)
                    /\ UNCHANGED << tasks_completed, winning_move >>
               ELSE /\ workers' = Set(w, done)
                    /\ UNCHANGED << results, found_win, winning_move >>
        /\ UNCHANGED << inputs, orch, tt, shared_array, global_chunk_queue, bitmap,
                        shutdown >>

Report(w) ==
    LET me == workers[w]
        task == me.task
        result == me.result
        move_idx == MoveIdx(game, task.root_move)
        cas == move_idx > 0 /\ move_results[move_idx] = RESULT_UNKNOWN
        retry == IF task.generation = 0
                   THEN [task EXCEPT !.priority = @ - 100, !.generation = 1]
                   ELSE [task EXCEPT !.priority = @ - 100]
        done == [me EXCEPT !.pc = "after", !.tree = << >>, !.task_completed = TRUE]
        won == [me EXCEPT !.pc = "store_win", !.won_cas = TRUE]
    IN  /\ me.pc = "report"
        /\ IF task.is_root_task
             THEN IF move_idx > 0 /\ result # RESULT_UNKNOWN
                    THEN /\ move_results' = cas_move_result(move_results, move_idx, result)
                         /\ found_win' = (found_win \/ result = RESULT_EXACT_WIN)
                         /\ IF result = RESULT_EXACT_WIN /\ ~found_win
                              THEN /\ workers' = Set(w, won)
                                   /\ UNCHANGED tasks_completed
                              ELSE /\ workers' = Set(w, done)
                                   /\ tasks_completed' = tasks_completed + 1
                         /\ UNCHANGED winning_move
                    ELSE /\ workers' = Set(w,
                               IF move_idx > 0 /\ ~found_win /\ ~shutdown
                                 THEN [done EXCEPT !.local_heap =
                                          local_heap_push(me.local_heap, retry)]
                                 ELSE done)
                         /\ UNCHANGED << results, found_win, winning_move >>
             ELSE IF result = RESULT_EXACT_WIN /\ cas
               THEN /\ move_results' = cas_move_result(move_results, move_idx,
                                                        RESULT_EXACT_WIN)
                    /\ found_win' = TRUE
                    /\ workers' = Set(w, IF ~found_win THEN won ELSE done)
                    /\ UNCHANGED << tasks_completed, winning_move >>
               ELSE /\ workers' = Set(w, done)
                    /\ UNCHANGED << results, found_win, winning_move >>
        /\ UNCHANGED << inputs, orch, tt, shared_array, global_chunk_queue, bitmap,
                        shutdown >>

\* the worker whose compare-and-swap set found_win:
\* __atomic_store_n(&winning_move, task->root_move, __ATOMIC_RELEASE), then the
\* rest of its report (a root task of process_task and of the split path past
\* its fallback is counted in tasks_completed)
StoreWinningMove(w) ==
    LET me == workers[w]
    IN  /\ me.pc \in {"store_win", "fallback_win"}
        /\ winning_move' = me.task.root_move
        /\ tasks_completed' = IF me.pc = "store_win" /\ me.task.is_root_task
                                THEN tasks_completed + 1 ELSE tasks_completed
        /\ workers' = Set(w, [me EXCEPT !.pc = "after", !.tree = << >>,
                                        !.task_completed = TRUE])
        /\ UNCHANGED << inputs, orch, tt, shared_array, global_chunk_queue, bitmap,
                        move_results, found_win, shutdown >>

(***************************************************************************)
(* The program                                                             *)
(***************************************************************************)
Next ==
    \/ SolveStart
    \/ MainPoll
    \/ MainTimeout
    \/ MainJoin
    \/ \E w \in WorkerIds : WorkerStart(w)
    \/ \E w \in WorkerIds : WorkerLoop(w)
    \/ \E w \in WorkerIds : WorkerGet(w)
    \/ \E w \in WorkerIds : WorkerExit(w)
    \/ \E w \in WorkerIds : ProcessTask(w)
    \/ \E w \in WorkerIds : Enter(w)
    \/ \E w \in WorkerIds : Iterate(w)
    \/ \E w \in WorkerIds : SplitFallback(w)
    \/ \E w \in WorkerIds : SplitFinish(w)
    \/ \E w \in WorkerIds : TaskFinish(w)
    \/ \E w \in WorkerIds : Report(w)
    \/ \E w \in WorkerIds : StoreWinningMove(w)
    \/ \E w \in WorkerIds : AfterTask(w)

Spec == Init /\ [][Next]_vars

(***************************************************************************)
(* A second specification for the termination properties: every thread     *)
(* that can take a step eventually takes one (the threads are scheduled by *)
(* the operating system; the orchestrator polls every 50 ms, an idle       *)
(* worker wakes up every 5 ms).                                            *)
(***************************************************************************)
WorkerStep(w) ==
    \/ WorkerStart(w) \/ WorkerLoop(w) \/ WorkerGet(w) \/ WorkerExit(w)
    \/ ProcessTask(w) \/ Enter(w) \/ Iterate(w) \/ SplitFallback(w)
    \/ SplitFinish(w) \/ TaskFinish(w) \/ Report(w) \/ StoreWinningMove(w)
    \/ AfterTask(w)

MainStep == SolveStart \/ MainPoll \/ MainJoin

FairSpec ==
    /\ Init
    /\ [][Next]_vars
    /\ WF_vars(MainStep)
    /\ \A w \in WorkerIds : WF_vars(WorkerStep(w))

(***************************************************************************)
(* Properties                                                              *)
(***************************************************************************)
Done == pc_main = "done"

\* the value of the root position for the side to move, by negamax
MinimaxResult == ResultOfValue(Negamax(game, 1))

HasEntry(r) == \E i \in 1..NMoves(game) : move_results[i] = r

\* C1: whenever solve_endgame returns a proven result (Win, Lose or Draw), it
\* is the minimax value of the root position for the side to move
C1_ProvenIsMinimax ==
    (Done /\ final_result # RESULT_UNKNOWN) => final_result = MinimaxResult

\* C2: for every task, pn = 0 at the task's root node on completion is
\* recorded as Win for the root player, and dn = 0 as Lose
C2_RootProofRecorded ==
    \A w \in WorkerIds :
        workers[w].pc = "report" =>
            /\ workers[w].tree[1].pn = 0 => workers[w].result = RESULT_EXACT_WIN
            /\ workers[w].tree[1].dn = 0 => workers[w].result = RESULT_EXACT_LOSE

\* C3: if at aggregation found_win is set or some move_results entry is Win,
\* solve_endgame returns Win
C3_WinIsReturned ==
    (Done /\ NMoves(game) > 0 /\ (found_win \/ HasEntry(RESULT_EXACT_WIN)))
        => final_result = RESULT_EXACT_WIN

C3_Witness ==
    /\ Done
    /\ found_win
    /\ HasEntry(RESULT_EXACT_WIN)
    /\ HasEntry(RESULT_UNKNOWN)
    /\ final_result = RESULT_EXACT_WIN

\* C4: solve_endgame returns Lose only if every move_results entry is Lose
C4_LoseOnlyIfAllLose ==
    (Done /\ final_result = RESULT_EXACT_LOSE)
        => /\ NMoves(game) > 0
           /\ \A i \in 1..NMoves(game) : move_results[i] = RESULT_EXACT_LOSE

C4_Witness ==
    /\ Done
    /\ final_result = RESULT_EXACT_LOSE
    /\ NMoves(game) = 2

\* C5: with no Win entry and an Unknown entry at aggregation, solve_endgame
\* returns Unknown; it returns Draw only when some entry is Draw and none is
\* Unknown
C5_UnknownBlocksDraw ==
    (Done /\ NMoves(game) > 0) =>
        /\ (~HasEntry(RESULT_EXACT_WIN) /\ HasEntry(RESULT_UNKNOWN))
               => final_result = RESULT_UNKNOWN
        /\ final_result = RESULT_EXACT_DRAW
               => (HasEntry(RESULT_EXACT_DRAW) /\ ~HasEntry(RESULT_UNKNOWN))

\* C6: when the final result is Win, the reported best move is a root move
\* whose move_results entry is Win
C6_BestMoveWins ==
    (Done /\ final_result = RESULT_EXACT_WIN) =>
        \E i \in 1..NMoves(game) :
            /\ MoveList(game)[i] = best_move
            /\ move_results[i] = RESULT_EXACT_WIN

\* C7: when the final result is Draw, the reported best move is the first
\* root move, in table order, whose result is Draw
C7_BestMoveIsFirstDraw ==
    (Done /\ final_result = RESULT_EXACT_DRAW) =>
        \E i \in 1..NMoves(game) :
            /\ move_results[i] = RESULT_EXACT_DRAW
            /\ \A j \in 1..(i - 1) : move_results[j] # RESULT_EXACT_DRAW
            /\ best_move = MoveList(game)[i]

\* C8: on a root position where neither side can move, solve_endgame returns
\* Win, Lose or Draw by the disc count of the side to move, never Unknown
C8_TerminalRootDecided ==
    (Done /\ game \in TerminalGames)
        => final_result = ResultOfValue(FinalScore(game, 1))

\* the root task of a move that leads directly to a finished position the
\* root player has won
DirectWin(task) ==
    /\ task.is_root_task
    /\ Len(game.pos[task.pos].kids) = 0
    /\ game.pos[task.pos].pass = 0
    /\ FinalScore(game, task.pos) < 0

\* C9: once the root task of a move that leads directly to a position won by
\* the root player has been processed, the move's table entry is Win, the task
\* is counted completed, and the solve ends with Win and that move
C9_DirectWinRecorded ==
    \A w \in WorkerIds :
        (workers[w].pc = "after" /\ DirectWin(workers[w].task)) =>
            /\ move_results[MoveIdx(game, workers[w].task.root_move)] = RESULT_EXACT_WIN
            /\ tasks_completed >= 1
            /\ found_win
            /\ winning_move = workers[w].task.root_move

\* C10: with a legal root move and no time limit, the solve eventually has
\* found_win set or every root move counted completed
C10_WaitLoopEnds ==
    (time_limit = 0 /\ NMoves(game) > 0)
        => <>(found_win \/ tasks_completed = NMoves(game))

\* the orchestrator waits without a time limit, no tier holds a task, no
\* worker has one in hand, and neither exit condition of the wait loop holds
C10_DeadEnd ==
    /\ time_limit = 0
    /\ pc_main = "wait"
    /\ ~found_win /\ ~shutdown
    /\ tasks_completed < NMoves(game)
    /\ shared_array = << >>
    /\ global_chunk_queue.heap = << >>
    /\ \A w \in 1..num_threads :
          /\ workers[w].pc \in {"loop", "get"}
          /\ workers[w].local_heap = << >>

(***************************************************************************)
(* The SharedTaskArray at the grain of its atomic operations.              *)
(*                                                                         *)
(* In Spec a push or a pop is one step.  RingSpec runs shared_array_push   *)
(* and shared_array_pop of concurrent threads one memory access at a time  *)
(* (sequentially consistent): here shared_array is the struct              *)
(* [head, tail, tasks] (tasks sparse: a slot never written holds the zero  *)
(* Task of calloc) and workers[w] holds the locals of thread w's call.     *)
(* The other variables are parked.                                         *)
(***************************************************************************)
\* pushes a thread makes in RingSpec
MaxPush == 2
\* pops a thread completes in RingSpec
MaxPop == 2

\* the k-th task thread w pushes
RingTask(w, k) == [NoTask EXCEPT !.pos = 10 * w + k, !.generation = 1]

RingSlot(sa, idx) == IF idx \in DOMAIN sa.tasks THEN sa.tasks[idx] ELSE NoTask

\* a thread between calls: pushed counts its pushes that returned true, got
\* lists the tasks its pops returned
IdleCaller ==
    [pc |-> "idle", head |-> 0, tail |-> 0, out_task |-> NoTask,
     pushed |-> 0, got |-> << >>]

Parked ==
    /\ game = MkGame(<< LeafFor("D", TRUE, 0) >>, << >>)
    /\ time_limit = 0
    /\ num_threads = MaxThreads
    /\ pc_main = "wait"
    /\ final_result = RESULT_UNKNOWN
    /\ best_move = -1
    /\ tt = << >>
    /\ global_chunk_queue = EmptyQueue
    /\ busy = {}
    /\ active_workers = 0
    /\ move_results = << >>
    /\ found_win = FALSE
    /\ winning_move = 0
    /\ shutdown = FALSE
    /\ tasks_completed = 0

parked == << game, time_limit, num_threads, pc_main, final_result, best_move, tt,
             global_chunk_queue, busy, active_workers, move_results, found_win,
             winning_move, shutdown, tasks_completed >>

RingInit ==
    /\ Parked
    /\ shared_array = [head |-> 0, tail |-> 0, tasks |-> << >>]
    /\ workers = [w \in WorkerIds |-> IdleCaller]

\* shared_array_push: uint32_t tail = atomic_load(&sa->tail)
PushLoadTail(w) ==
    /\ workers[w].pc \in {"idle", "push"}
    /\ workers[w].pushed < MaxPush
    /\ workers' = [workers EXCEPT ![w].pc = "push_head", ![w].tail = shared_array.tail]
    /\ UNCHANGED << parked, shared_array >>

\* head = atomic_load(&sa->head); a full ring returns false
PushLoadHead(w) ==
    /\ workers[w].pc = "push_head"
    /\ workers' = [workers EXCEPT
            ![w].head = shared_array.head,
            ![w].pc = IF workers[w].tail - shared_array.head >= SHARED_ARRAY_SIZE
                        THEN "idle" ELSE "push_cas"]
    /\ UNCHANGED << parked, shared_array >>

\* atomic_compare_exchange_weak(&sa->tail, &tail, tail + 1): reserves the slot,
\* or fails (another push got there, or spuriously) and retries
PushCas(w) ==
    /\ workers[w].pc = "push_cas"
    /\ \/ /\ shared_array.tail = workers[w].tail
          /\ shared_array' = [shared_array EXCEPT !.tail = @ + 1]
          /\ workers' = [workers EXCEPT ![w].pc = "push_write"]
       \/ /\ workers' = [workers EXCEPT ![w].pc = "push"]
          /\ UNCHANGED shared_array
    /\ UNCHANGED parked

\* sa->tasks[tail % capacity] = *task; release fence; return true
PushWrite(w) ==
    /\ workers[w].pc = "push_write"
    /\ shared_array' = [shared_array EXCEPT !.tasks =
            ((workers[w].tail % SHARED_ARRAY_SIZE) :> RingTask(w, workers[w].pushed + 1)) @@ @]
    /\ workers' = [workers EXCEPT ![w].pc = "idle", ![w].pushed = @ + 1]
    /\ UNCHANGED parked

\* shared_array_pop: uint32_t head = atomic_load(&sa->head)
PopLoadHead(w) ==
    /\ workers[w].pc \in {"idle", "pop"}
    /\ Len(workers[w].got) < MaxPop
    /\ workers' = [workers EXCEPT ![w].pc = "pop_tail", ![w].head = shared_array.head]
    /\ UNCHANGED << parked, shared_array >>

\* tail = atomic_load(&sa->tail); an empty ring returns false
PopLoadTail(w) ==
    /\ workers[w].pc = "pop_tail"
    /\ workers' = [workers EXCEPT
            ![w].tail = shared_array.tail,
            ![w].pc = IF workers[w].head >= shared_array.tail THEN "idle" ELSE "pop_read"]
    /\ UNCHANGED << parked, shared_array >>

\* *out_task = sa->tasks[head % capacity]
PopRead(w) ==
    /\ workers[w].pc = "pop_read"
    /\ workers' = [workers EXCEPT
            ![w].out_task = RingSlot(shared_array, workers[w].head % SHARED_ARRAY_SIZE),
            ![w].pc = "pop_cas"]
    /\ UNCHANGED << parked, shared_array >>

\* atomic_compare_exchange_weak(&sa->head, &head, head + 1): claims the slot and
\* returns true, or fails and retries
PopCas(w) ==
    /\ workers[w].pc = "pop_cas"
    /\ \/ /\ shared_array.head = workers[w].head
          /\ shared_array' = [shared_array EXCEPT !.head = @ + 1]
          /\ workers' = [workers EXCEPT ![w].pc = "idle",
                                        ![w].got = Append(@, workers[w].out_task)]
       \/ /\ workers' = [workers EXCEPT ![w].pc = "pop"]
          /\ UNCHANGED shared_array
    /\ UNCHANGED parked

RingNext ==
    \/ \E w \in WorkerIds : PushLoadTail(w)
    \/ \E w \in WorkerIds : PushLoadHead(w)
    \/ \E w \in WorkerIds : PushCas(w)
    \/ \E w \in WorkerIds : PushWrite(w)
    \/ \E w \in WorkerIds : PopLoadHead(w)
    \/ \E w \in WorkerIds : PopLoadTail(w)
    \/ \E w \in WorkerIds : PopRead(w)
    \/ \E w \in WorkerIds : PopCas(w)

RingSpec == RingInit /\ [][RingNext]_vars

\* the tasks whose push has finished writing its slot
RingWritten == { RingTask(w, k) : w \in WorkerIds, k \in 1..MaxPush } \cap
               UNION { { RingTask(w, k) : k \in 1..workers[w].pushed } : w \in WorkerIds }

\* the tasks the pops have returned, as (thread, index) -> task
RingGot == { << w, i >> : w \in WorkerIds, i \in 1..MaxPop } \cap
           UNION { { << w, i >> : i \in 1..Len(workers[w].got) } : w \in WorkerIds }

\* C11: under any interleaving of shared_array_push and shared_array_pop, every
\* task a pop returns is a task whose push has finished writing its slot, and
\* no task is returned by two pops (nothing uninitialised, lost or duplicated)
C11_PopReturnsWrittenTask ==
    /\ \A g \in RingGot : workers[g[1]].got[g[2]] \in RingWritten
    /\ \A g \in RingGot : \A h \in RingGot :
           workers[g[1]].got[g[2]] = workers[h[1]].got[h[2]] => g = h

\* C12: each move_results[i] changes at most once, and only from Unknown to
\* Win, Lose or Draw, whichever workers report (root tasks and subtasks)
C12_ResultWrittenOnce ==
    [][\A i \in 1..NMoves(game) :
          move_results'[i] # move_results[i] =>
              /\ move_results[i] = RESULT_UNKNOWN
              /\ move_results'[i] \in {RESULT_EXACT_WIN, RESULT_EXACT_LOSE,
                                       RESULT_EXACT_DRAW}]_vars

\* a worker has a proven result to report for a root move whose entry another
\* report has already decided
C12_Witness ==
    \E w \in WorkerIds :
        /\ workers[w].pc = "after"
        /\ workers[w].task.is_root_task
        /\ workers[w].result # RESULT_UNKNOWN
        /\ MoveIdx(game, workers[w].task.root_move) > 0
        /\ move_results[MoveIdx(game, workers[w].task.root_move)] # RESULT_UNKNOWN
        /\ move_results[MoveIdx(game, workers[w].task.root_move)] # workers[w].result

\* the workers whose compare-and-swap on found_win succeeded
CasWinners == { w \in WorkerIds : workers[w].won_cas }

\* C13: found_win goes from false to true once and never back, only the
\* worker that won that compare-and-swap writes winning_move, and the move
\* solve_endgame returns with a found Win is the root move that worker stored
C13_WinningMoveIsWinners ==
    /\ [][/\ found_win => found_win'
          /\ winning_move' # winning_move =>
                \E w \in CasWinners :
                    /\ workers[w].pc \in {"store_win", "fallback_win"}
                    /\ winning_move' = workers[w].task.root_move]_vars
    /\ [](Cardinality(CasWinners) <= 1)
    /\ [](Done /\ found_win =>
             \E w \in CasWinners : best_move = workers[w].task.root_move)

\* solve_endgame has returned the move of the worker that won the
\* compare-and-swap while another worker had found a Win as well
C13_Witness ==
    /\ Done
    /\ found_win
    /\ \E w \in CasWinners : \E v \in WorkerIds \ CasWinners :
          /\ best_move = workers[w].task.root_move
          /\ workers[v].result = RESULT_EXACT_WIN

\* a TT entry that records a proof: a Win or a Loss (pn or dn zero) or a Draw
ProvenEntry(e) == e.pn = 0 \/ e.dn = 0 \/ (e.pn = PN_INF /\ e.dn = DN_INF)

\* C14: once the table holds a proven entry for a key at depth d, no later
\* store for the same key at a depth >= d changes its pn or dn
C14_ProvenEntryKept ==
    [][\A i \in DOMAIN tt :
          (ProvenEntry(tt[i]) /\ tt'[i].key = tt[i].key /\ tt'[i].depth >= tt[i].depth)
              => (tt'[i].pn = tt[i].pn /\ tt'[i].dn = tt[i].dn)]_vars

\* whether the root player is the side to move at position p (the side to
\* move changes with every move and every pass)
RECURSIVE RootToMove(_, _)
RootToMove(g, p) ==
    IF p = 1 THEN TRUE
    ELSE LET q == CHOOSE q \in 1..(p - 1) :
                      \/ g.pos[q].pass = p
                      \/ \E i \in 1..Len(g.pos[q].kids) : g.pos[q].kids[i] = p
         IN  ~RootToMove(g, q)

\* the negamax value of position p for the root player
RootValue(g, p) == IF RootToMove(g, p) THEN Negamax(g, p) ELSE 0 - Negamax(g, p)

\* C15: every TT entry with pn = 0 is for a position that is a forced Win for
\* the root player and has result Win, every entry with dn = 0 is for a forced
\* Loss and has result Lose, whichever store site wrote it
C15_ProvenEntrySound ==
    \A i \in DOMAIN tt :
        /\ tt[i].pn = 0 => (RootValue(game, tt[i].key) = 1
                            /\ tt[i].result = RESULT_EXACT_WIN)
        /\ tt[i].dn = 0 => (RootValue(game, tt[i].key) = -1
                            /\ tt[i].result = RESULT_EXACT_LOSE)

(***************************************************************************)
(* The transposition table at the grain of its locks.                      *)
(*                                                                         *)
(* In Spec tt_probe and tt_store are one step each.  TtSpec runs them for  *)
(* concurrent threads as lock, access, unlock: workers[w] holds the locals *)
(* of thread w's call, a stripe lock is held by the threads that are       *)
(* between their lock and their unlock.  Keys are drawn from a set with    *)
(* two keys of one slot; the other variables are parked.                   *)
(***************************************************************************)
\* int lock_index = (key >> 20) & (TT_LOCK_STRIPES - 1)
lock_index(key) == (key \div 1048576) % TT_LOCK_STRIPES

\* keys the threads of TtSpec probe and store: 1 and 2 are neighbours in one
\* stripe, 1 and 1 + TTSize share a slot
TtKeys == {1, 2, 1 + TTSize}

\* what the caller of tt_probe has in *pn, *dn and *result before the call
\* (dfpn_solve_node passes the fields of its node)
CallerOut == [pn |-> 1, dn |-> 1, result |-> RESULT_UNKNOWN]

TtIdle == [pc |-> "idle", key |-> 0, depth |-> 0, pn |-> 0, hit |-> FALSE,
           out |-> CallerOut]

\* the threads that hold stripe l, for reading and for writing
Readers(l) == { w \in WorkerIds : workers[w].pc \in {"rdlocked", "read"}
                                  /\ lock_index(workers[w].key) = l }
Writers(l) == { w \in WorkerIds : workers[w].pc \in {"wrlocked", "written"}
                                  /\ lock_index(workers[w].key) = l }

TtInit ==
    /\ Parked
    /\ shared_array = << >>
    /\ workers = [w \in WorkerIds |-> TtIdle]

\* tt_probe: pthread_rwlock_rdlock(&tt->locks[lock_index].lock)
ProbeLock(w) ==
    /\ workers[w].pc = "idle"
    /\ \E key \in TtKeys, depth \in {0, 1} :
          /\ Writers(lock_index(key)) = {}
          /\ workers' = [workers EXCEPT ![w] =
                            [TtIdle EXCEPT !.pc = "rdlocked", !.key = key,
                                           !.depth = depth]]
    /\ UNCHANGED << parked, shared_array >>

\* hit = (entry->key == key && entry->depth >= depth), and the copy out
ProbeRead(w) ==
    /\ workers[w].pc = "rdlocked"
    /\ workers' = [workers EXCEPT
            ![w].pc = "read",
            ![w].hit = tt_probe_hit(tt, workers[w].key, workers[w].depth),
            ![w].out = IF tt_probe_hit(tt, workers[w].key, workers[w].depth)
                         THEN [pn |-> TTGet(tt, workers[w].key).pn,
                               dn |-> TTGet(tt, workers[w].key).dn,
                               result |-> TTGet(tt, workers[w].key).result]
                         ELSE @]
    /\ UNCHANGED << parked, shared_array >>

\* tt_store: pthread_rwlock_wrlock(&tt->locks[lock_index].lock)
StoreLock(w) ==
    /\ workers[w].pc = "idle"
    /\ \E key \in TtKeys, depth \in {0, 1}, pn \in {0, 1} :
          /\ Writers(lock_index(key)) = {}
          /\ Readers(lock_index(key)) = {}
          /\ workers' = [workers EXCEPT ![w] =
                            [TtIdle EXCEPT !.pc = "wrlocked", !.key = key,
                                           !.depth = depth, !.pn = pn]]
    /\ UNCHANGED << parked, shared_array >>

\* if (entry->depth <= depth) the entry is overwritten
StoreWrite(w) ==
    /\ workers[w].pc = "wrlocked"
    /\ tt' = tt_store(tt, workers[w].key, workers[w].depth, workers[w].pn, DN_INF,
                      RESULT_EXACT_WIN, 0)
    /\ workers' = [workers EXCEPT ![w].pc = "written"]
    /\ UNCHANGED << game, time_limit, num_threads, pc_main, final_result, best_move,
                    global_chunk_queue, busy, active_workers, move_results,
                    found_win, winning_move, shutdown, tasks_completed,
                    shared_array >>

\* pthread_rwlock_unlock(&tt->locks[lock_index].lock)
TtUnlock(w) ==
    /\ workers[w].pc \in {"read", "written"}
    /\ workers' = [workers EXCEPT ![w].pc = "idle"]
    /\ UNCHANGED << parked, shared_array >>

TtNext ==
    \/ \E w \in WorkerIds : ProbeLock(w)
    \/ \E w \in WorkerIds : ProbeRead(w)
    \/ \E w \in WorkerIds : StoreLock(w)
    \/ \E w \in WorkerIds : StoreWrite(w)
    \/ \E w \in WorkerIds : TtUnlock(w)

TtSpec == TtInit /\ [][TtNext]_vars

\* thread w is between the lock and the unlock of a probe / of a store
InProbe(w) == workers[w].pc \in {"rdlocked", "read"}
InStore(w) == workers[w].pc \in {"wrlocked", "written"}

\* C16: no two threads are inside tt_probe or tt_store on the same slot at the
\* same time when one of them is a store (two keys of one slot select the same
\* stripe lock)
C16_SlotAccessExclusive ==
    \A w \in WorkerIds : \A v \in WorkerIds \ {w} :
        (InStore(w) /\ (InProbe(v) \/ InStore(v)))
            => TTIndex(workers[w].key) # TTIndex(workers[v].key)

\* C17: tt_store overwrites the slot iff the incoming depth >= the stored
\* depth and otherwise leaves the table unchanged; tt_probe reports a hit iff
\* the stored key is the probed key and the stored depth >= the requested
\* depth, and on a miss leaves the caller's pn, dn and result untouched
C17_StoreAndProbeContract ==
    [][\A w \in WorkerIds :
          LET me == workers[w]
              entry == TTGet(tt, me.key)
          IN  /\ (me.pc = "wrlocked" /\ workers'[w].pc = "written") =>
                    IF me.depth >= entry.depth
                      THEN TTGet(tt', me.key) =
                               [key |-> me.key, pn |-> me.pn, dn |-> DN_INF,
                                result |-> RESULT_EXACT_WIN, depth |-> me.depth,
                                eval_score |-> 0]
                      ELSE tt' = tt
              /\ (me.pc = "rdlocked" /\ workers'[w].pc = "read") =>
                    /\ workers'[w].hit = (entry.key = me.key /\ entry.depth >= me.depth)
                    /\ ~workers'[w].hit => workers'[w].out = me.out]_vars

\* a store of a shallower depth has left the entry of its key alone while a
\* probe of the other key of that slot has missed
C17_Witness ==
    \E w \in WorkerIds : \E v \in WorkerIds :
        /\ workers[w].pc = "written"
        /\ TTGet(tt, workers[w].key).key = workers[w].key
        /\ TTGet(tt, workers[w].key).depth > workers[w].depth
        /\ workers[v].pc = "read"
        /\ ~workers[v].hit
        /\ TTIndex(workers[v].key) = TTIndex(workers[w].key)

\* the tasks of sequence s, as a set
TaskSet(s) == { s[i] : i \in 1..Len(s) }

\* the worker taking the step is inside a spawn site: the root split of
\* process_root_task_with_split, the early or mid-search spawn of
\* dfpn_solve_node, spawn_child_tasks
AtSpawnSite(w) == workers[w].pc \in {"task", "solve", "finish"}

\* C18: every subtask a spawn site creates carries the root_move of the task
\* being processed (the root move it descends from) and that task's generation
\* plus one
C18_SubtaskInheritsRootMove ==
    [][\A w \in WorkerIds :
          (AtSpawnSite(w) /\ workers'[w] # workers[w]) =>
              \A t \in (TaskSet(shared_array') \ TaskSet(shared_array))
                         \cup (TaskSet(workers'[w].local_heap)
                                 \ TaskSet(workers[w].local_heap)) :
                  ~t.is_root_task =>
                      /\ t.root_move = workers'[w].task.root_move
                      /\ t.generation = workers'[w].task.generation + 1]_vars

\* C19: once shutdown or found_win is up, every worker leaves its task loop,
\* the joins of the orchestrator complete and solve_endgame returns
C19_StopIsObeyed == (shutdown \/ found_win) ~> Done

\* solve_endgame has returned with a Win found by one worker while another
\* worker was given a task and left it unproven
C19_Witness ==
    /\ Done
    /\ found_win
    /\ \E w \in CasWinners : \E v \in WorkerIds \ {w} :
          /\ workers[v].pc = "done"
          /\ workers[v].task.pos # 0
          /\ workers[v].result = RESULT_UNKNOWN

(***************************************************************************)
(* solve_endgame called again on the same position.                        *)
(*                                                                         *)
(* TwiceSpec runs without a time limit; when a call has returned, the      *)
(* caller calls solve_endgame again with the same arguments.  Every call   *)
(* builds its own GlobalState, TT, queues and workers; final_result and    *)
(* best_move keep what the previous call gave the caller until the next    *)
(* call returns.                                                           *)
(***************************************************************************)
TwiceInit ==
    /\ Init
    /\ time_limit = 0
    /\ NMoves(game) > 0

\* the next call: calloc'ed GlobalState and workers, tt_create,
\* global_chunk_queue_create, shared_array_create
SolveAgain ==
    /\ pc_main = "done"
    /\ pc_main' = "init"
    /\ tt' = << >>
    /\ shared_array' = << >>
    /\ global_chunk_queue' = EmptyQueue
    /\ busy' = {}
    /\ active_workers' = 0
    /\ move_results' = [i \in 1..NMoves(game) |-> RESULT_UNKNOWN]
    /\ found_win' = FALSE
    /\ winning_move' = 0
    /\ shutdown' = FALSE
    /\ tasks_completed' = 0
    /\ workers' = [w \in WorkerIds |-> ZeroWorker]
    /\ UNCHANGED << inputs, final_result, best_move >>

TwiceNext ==
    \/ SolveStart
    \/ MainPoll
    \/ MainJoin
    \/ SolveAgain
    \/ \E w \in WorkerIds : WorkerStart(w)
    \/ \E w \in WorkerIds : WorkerLoop(w)
    \/ \E w \in WorkerIds : WorkerGet(w)
    \/ \E w \in WorkerIds : WorkerExit(w)
    \/ \E w \in WorkerIds : ProcessTask(w)
    \/ \E w \in WorkerIds : Enter(w)
    \/ \E w \in WorkerIds : Iterate(w)
    \/ \E w \in WorkerIds : SplitFallback(w)
    \/ \E w \in WorkerIds : SplitFinish(w)
    \/ \E w \in WorkerIds : TaskFinish(w)
    \/ \E w \in WorkerIds : Report(w)
    \/ \E w \in WorkerIds : StoreWinningMove(w)
    \/ \E w \in WorkerIds : AfterTask(w)

TwiceSpec == TwiceInit /\ [][TwiceNext]_vars

\* C20: a call of solve_endgame on a position, without a time limit, returns
\* the Result and the best move that the previous call on the same position
\* with the same configuration returned, whatever the interleaving of the
\* workers (before the first call returns best_move is -1)
C20_SecondRunAgrees ==
    [][(pc_main = "join" /\ pc_main' = "done" /\ best_move # -1) =>
          (final_result' = final_result /\ best_move' = best_move)]_vars

\* ------------------------------------------------------------------------
\* main: the value the process returns to the shell.  parsed is the result
\* of parse_pos_file; result is what solve_endgame returned.  The usage
\* error and the parse error return 1; after solve_endgame the result is
\* printed and main returns 0 whatever the result is.
main_return(parsed, result) ==
    IF ~parsed THEN 1 ELSE 0

\* the exit status of a run whose position file parsed
ExitCode == main_return(TRUE, final_result)

\* C21: the process exit code is 0 when a proven result (Win/Lose/Draw) is
\* returned, 1 on a position parse error, and 2 when the result is Unknown.
C21_ExitCodeTellsResult ==
    /\ main_return(FALSE, RESULT_UNKNOWN) = 1
    /\ Done => ExitCode = (IF final_result = RESULT_UNKNOWN THEN 2 ELSE 0)

\* ------------------------------------------------------------------------
\* Canonical hashing of bitboards.  A uint64_t bitboard is the set of its
\* one bits (bit i is square i), so that shifts, masks and comparisons are
\* computed on all 64 bits.
Squares == 0 .. 63

\* b >> k and b << k on 64 bits
ShiftRight(b, k) == { i - k : i \in { j \in b : j >= k } }
ShiftLeft(b, k) == { i + k : i \in { j \in b : j + k <= 63 } }
BitXor(a, b) == (a \ b) \cup (b \ a)

\* __builtin_bswap64: byte k goes to byte 7 - k
bswap_64(b) == { (7 - (i \div 8)) * 8 + (i % 8) : i \in b }

vertical_mirror(b) == bswap_64(b)

\* the masks 0x5555..., 0xAAAA..., 0x3333..., 0xCCCC..., 0x0F0F..., 0xF0F0...
\* are the squares with the given column bits
horizontal_mirror(b) ==
    LET Mask5555 == { i \in Squares : i % 2 = 0 }
        MaskAAAA == { i \in Squares : i % 2 = 1 }
        Mask3333 == { i \in Squares : i % 4 < 2 }
        MaskCCCC == { i \in Squares : i % 4 >= 2 }
        Mask0F0F == { i \in Squares : i % 8 < 4 }
        MaskF0F0 == { i \in Squares : i % 8 >= 4 }
        b1 == (ShiftRight(b, 1) \cap Mask5555) \cup (ShiftLeft(b, 1) \cap MaskAAAA)
        b2 == (ShiftRight(b1, 2) \cap Mask3333) \cup (ShiftLeft(b1, 2) \cap MaskCCCC)
    IN  (ShiftRight(b2, 4) \cap Mask0F0F) \cup (ShiftLeft(b2, 4) \cap MaskF0F0)

\* one step of transpose: t = (b ^ (b >> k)) & mask; b = b ^ t ^ (t << k)
DeltaSwap(b, k, mask) ==
    LET t == BitXor(b, ShiftRight(b, k)) \cap mask
    IN  BitXor(BitXor(b, t), ShiftLeft(t, k))

\* the masks are 0x00AA00AA00AA00AA, 0x0000CCCC0000CCCC, 0x00000000F0F0F0F0
transpose(b) ==
    LET Mask00AA == { i \in Squares : i % 16 \in {1, 3, 5, 7} }
        Mask0000CCCC == { i \in Squares : i % 32 < 16 /\ i % 4 >= 2 }
        Mask00000000F0F0F0F0 == { i \in Squares : i < 32 /\ i % 8 >= 4 }
    IN  DeltaSwap(DeltaSwap(DeltaSwap(b, 7, Mask00AA), 14, Mask0000CCCC),
                  28, Mask00000000F0F0F0F0)

\* board_symmetry: s & 1 mirrors horizontally, then s & 2 vertically, then
\* s & 4 transposes; the same on both bitboards
SymmetryOf(b, s) ==
    LET h == IF s % 2 = 1 THEN horizontal_mirror(b) ELSE b
        v == IF (s \div 2) % 2 = 1 THEN vertical_mirror(h) ELSE h
    IN  IF (s \div 4) % 2 = 1 THEN transpose(v) ELSE v

board_symmetry(player, opponent, s) ==
    [P |-> SymmetryOf(player, s), O |-> SymmetryOf(opponent, s)]

\* a < b as unsigned 64-bit integers: the highest bit where they differ is
\* a bit of b
TopBit(b) == CHOOSE i \in b : \A j \in b : j <= i
UnsignedLess(a, b) == a # b /\ TopBit(BitXor(a, b)) \in b

\* a variant that compares the player bitboard only
board_lesser_player_only(p1, o1, p2, o2) == UnsignedLess(p1, p2)

board_lesser(p1, o1, p2, o2) ==
    UnsignedLess(p1, p2) \/ (p1 = p2 /\ UnsignedLess(o1, o2))

\* the loop for (s = 1; s < 8; s++) shared by both versions of
\* board_unique: sym[s] replaces the best so far when it is lesser
RECURSIVE UniqueFrom(_, _, _)
UniqueFrom(sym, s, best) ==
    IF s >= 8 THEN best
    ELSE UniqueFrom(sym, s + 1,
                    IF board_lesser(sym[s].P, sym[s].O, best.P, best.O)
                    THEN sym[s] ELSE best)

board_unique_scalar(player, opponent) ==
    UniqueFrom([s \in 0 .. 7 |-> board_symmetry(player, opponent, s)], 1,
               [P |-> player, O |-> opponent])

\* board_unique_avx2: sym[1] = H, sym[2] = V, sym[3] = V(H), sym[4] = T,
\* sym[5] = H(T), sym[6] = V(T), sym[7] = V(H(T))
Avx2Symmetry(b, s) ==
    LET t == IF (s \div 4) % 2 = 1 THEN transpose(b) ELSE b
        h == IF s % 2 = 1 THEN horizontal_mirror(t) ELSE t
    IN  IF (s \div 2) % 2 = 1 THEN vertical_mirror(h) ELSE h

board_unique_avx2(player, opponent) ==
    UniqueFrom([s \in 0 .. 7 |-> [P |-> Avx2Symmetry(player, s),
                                  O |-> Avx2Symmetry(opponent, s)]], 1,
               [P |-> player, O |-> opponent])

\* board_unique: the AVX2 version when the CPU has AVX2
board_unique(cpu_has_avx2, player, opponent) ==
    IF cpu_has_avx2 THEN board_unique_avx2(player, opponent)
    ELSE board_unique_scalar(player, opponent)

\* hash_position on bitboards: the XOR of zobrist_table[0][i] over the bits
\* of unique_P and of zobrist_table[1][i] over the bits of unique_O.  The
\* table holds rand() values, so the XOR is kept as the set of table
\* entries that occur an odd number of times.
ZobristXor(cpu_has_avx2, P, O) ==
    LET u == board_unique(cpu_has_avx2, P, O)
    IN  { << 0, i >> : i \in u.P } \cup { << 1, i >> : i \in u.O }

\* HashSpec: one thread hashes a position, builds one of its symmetric
\* images with board_symmetry and hashes the image.  workers holds the
\* thread's locals; the other variables stay parked.
HashSquares == {0, 1, 7, 10, 28, 35, 56, 63}
MaxDiscs == 2

\* bitboards with at most MaxDiscs discs on HashSquares, a full board and
\* the four centre squares
HashBoards ==
    { b \in SUBSET HashSquares : Cardinality(b) <= MaxDiscs }
        \cup { Squares \ { 0 }, Squares \ { 7, 9 }, {27, 28, 35, 36}, {27, 36} }

HashInit ==
    /\ Parked
    /\ shared_array = << >>
    /\ \E P \in HashBoards, O \in HashBoards, s \in 0 .. 7,
          cpu_has_avx2 \in BOOLEAN :
          /\ P \cap O = {}
          /\ workers = [pc |-> "start", P |-> P, O |-> O, s |-> s,
                        cpu_has_avx2 |-> cpu_has_avx2,
                        sym_P |-> {}, sym_O |-> {}, hash |-> {}, sym_hash |-> {}]

\* hash = hash_position(P, O)
HashPosition ==
    /\ workers.pc = "start"
    /\ workers' = [workers EXCEPT
            !.pc = "hashed",
            !.hash = ZobristXor(workers.cpu_has_avx2, workers.P, workers.O)]
    /\ UNCHANGED << parked, shared_array >>

\* board_symmetry(P, O, s, &sym_P, &sym_O)
ApplySymmetry ==
    /\ workers.pc = "hashed"
    /\ \E img \in { board_symmetry(workers.P, workers.O, workers.s) } :
          workers' = [workers EXCEPT !.pc = "mirrored",
                                     !.sym_P = img.P, !.sym_O = img.O]
    /\ UNCHANGED << parked, shared_array >>

\* sym_hash = hash_position(sym_P, sym_O)
HashImage ==
    /\ workers.pc = "mirrored"
    /\ workers' = [workers EXCEPT
            !.pc = "compared",
            !.sym_hash = ZobristXor(workers.cpu_has_avx2, workers.sym_P,
                                    workers.sym_O)]
    /\ UNCHANGED << parked, shared_array >>

HashNext == HashPosition \/ ApplySymmetry \/ HashImage

HashSpec == HashInit /\ [][HashNext]_vars

\* C22: for every position (P, O) and each of the 8 board symmetries s,
\* hash_position(s(P, O)) = hash_position(P, O): board_unique picks the
\* same least pair over the whole orbit.
C22_HashIsSymmetryInvariant ==
    workers.pc = "compared" =>
        /\ workers.sym_hash = workers.hash
        /\ board_unique(workers.cpu_has_avx2, workers.sym_P, workers.sym_O)
             = board_unique(workers.cpu_has_avx2, workers.P, workers.O)

\* a transposed image of an asymmetric position has been hashed
C22_Witness ==
    /\ workers.pc = "compared"
    /\ workers.s = 5
    /\ workers.P = {1}
    /\ workers.O = {10, 63}
    /\ workers.sym_P # workers.P
    /\ workers.sym_O # workers.O

\* ------------------------------------------------------------------------
\* The node pool of one worker.  blocks is the list first_block, ->next, ...;
\* each block is its array of DFPNNode; current_block is the position of
\* the current block in the list and current_index the next free slot.
\* NODE_POOL_BLOCK_SIZE is 8192 in the source; the pool is built here with
\* blocks of PoolBlockSize nodes.
PoolBlockSize == 2
MaxAllocs == 6

\* calloc(pool->block_size, sizeof(DFPNNode)), and memset(nodes, 0, ...)
ZeroBlock(block_size) == [i \in 1 .. block_size |-> ZeroNode]

node_pool_init ==
    [blocks |-> << ZeroBlock(PoolBlockSize) >>, current_block |-> 1,
     current_index |-> 0, block_size |-> PoolBlockSize, total_allocated |-> 0]

\* the pool when the current block is full: the next block is allocated if
\* there is none, it becomes the current block and is zeroed when memset
\* is set
NextBlock(pool, memset) ==
    LET grown == IF pool.current_block = Len(pool.blocks)
                   THEN Append(pool.blocks, ZeroBlock(pool.block_size))
                   ELSE pool.blocks
        nb == pool.current_block + 1
    IN  [pool EXCEPT !.blocks = [grown EXCEPT ![nb] =
                         IF memset THEN ZeroBlock(pool.block_size) ELSE @],
                     !.current_block = nb, !.current_index = 0]

\* a variant that enters the next block without the memset
node_pool_alloc_no_memset(pool) ==
    LET p1 == IF pool.current_index >= pool.block_size
                THEN NextBlock(pool, FALSE) ELSE pool
    IN  [pool |-> [p1 EXCEPT !.current_index = @ + 1, !.total_allocated = @ + 1],
         node |-> << p1.current_block, p1.current_index + 1 >>]

\* node_pool_alloc: the pool afterwards and the node returned, named by its
\* block and its slot
node_pool_alloc(pool) ==
    LET p1 == IF pool.current_index >= pool.block_size
                THEN NextBlock(pool, TRUE) ELSE pool
    IN  [pool |-> [p1 EXCEPT !.current_index = @ + 1, !.total_allocated = @ + 1],
         node |-> << p1.current_block, p1.current_index + 1 >>]

\* node_pool_reset: back to the first block, which is zeroed; the other
\* blocks are retained as they are
node_pool_reset(pool) ==
    [pool EXCEPT !.current_block = 1, !.current_index = 0,
                 !.blocks[1] = ZeroBlock(pool.block_size)]

\* what a task leaves in a node it was given: an expanded node, a proven
\* leaf
UsedNodes ==
    { [ZeroNode EXCEPT !.pos = 1, !.pn = 1, !.dn = 1, !.children = << 2 >>],
      [ZeroNode EXCEPT !.pos = 2, !.pn = 0, !.dn = DN_INF, !.is_proven = TRUE,
                       !.result = RESULT_EXACT_WIN] }

\* PoolSpec: one worker allocates nodes, writes to the nodes of the running
\* task and resets the pool at the end of a task.  workers holds the pool,
\* the last node returned (node, with its content got), the nodes of the
\* running task (live), whether a reset has happened, and whether the last
\* allocation entered a retained block that held a used node.
PoolInit ==
    /\ Parked
    /\ shared_array = << >>
    /\ workers = [pool |-> node_pool_init, pc |-> "idle", node |-> << >>,
                  got |-> ZeroNode, live |-> {}, after_reset |-> FALSE,
                  reused |-> FALSE]

\* DFPNNode *node = node_pool_alloc(&worker->node_pool)
PoolAlloc ==
    /\ workers.pool.total_allocated < MaxAllocs
    /\ \E r \in { node_pool_alloc(workers.pool) } :
          workers' = [workers EXCEPT
              !.pool = r.pool, !.pc = "allocated", !.node = r.node,
              !.got = r.pool.blocks[r.node[1]][r.node[2]],
              !.live = @ \cup { r.node },
              !.reused = /\ r.node[2] = 1
                         /\ r.node[1] <= Len(workers.pool.blocks)
                         /\ r.node[1] > 1
                         /\ \E i \in 1 .. workers.pool.block_size :
                               workers.pool.blocks[r.node[1]][i] # ZeroNode]
    /\ UNCHANGED << parked, shared_array >>

\* the task writes to a node it has allocated
PoolWrite ==
    /\ \E n \in workers.live, used \in UsedNodes :
          workers' = [workers EXCEPT !.pool.blocks[n[1]][n[2]] = used,
                                     !.pc = "written"]
    /\ UNCHANGED << parked, shared_array >>

\* node_pool_reset(&worker->node_pool) at the end of process_task
PoolReset ==
    /\ workers.live # {}
    /\ workers' = [workers EXCEPT !.pool = node_pool_reset(workers.pool),
                                  !.pc = "reset", !.live = {},
                                  !.after_reset = TRUE]
    /\ UNCHANGED << parked, shared_array >>

PoolNext == PoolAlloc \/ PoolWrite \/ PoolReset

PoolSpec == PoolInit /\ [][PoolNext]_vars

\* C23: for any sequence of node_pool_alloc and node_pool_reset calls,
\* every node returned by node_pool_alloc is fully zeroed (no children,
\* not proven, result Unknown), also when the allocation moves into a
\* retained block that an earlier task used.
C23_AllocReturnsZeroNode ==
    workers.pc = "allocated" => workers.got = ZeroNode

\* after a reset, an allocation has entered a retained second block in
\* which the earlier task had left a used node
C23_Witness ==
    /\ workers.pc = "allocated"
    /\ workers.after_reset
    /\ workers.reused
    /\ workers.node = << 2, 1 >>

\* ------------------------------------------------------------------------
\* a root whose numbers are a proof: pn = 0, dn = 0, or both infinite
ProofNumbers(node) ==
    \/ node.pn = 0
    \/ node.dn = 0
    \/ (node.pn >= PN_INF /\ node.dn >= DN_INF)

\* C24: a task's result is recorded as Win, Lose or Draw only when its root
\* node has pn = 0, dn = 0 or pn = dn = INF; a root with pn >= INF and
\* 0 < dn < INF, or dn >= INF and 0 < pn < INF, is treated as Unknown.
C24_ResultOnlyFromProof ==
    \A w \in WorkerIds :
        (workers[w].pc = "report" /\ workers[w].result # RESULT_UNKNOWN)
            => ProofNumbers(workers[w].tree[1])

\* the position a root move leads to
RootMovePos(g, move) == g.pos[1].kids[MoveIdx(g, move)]

\* C25: if a subtask completes with result Win, the root move it descends
\* from is a forced Win for the root player, so the Win it writes to
\* move_results[root_move] and found_win is sound.
C25_SubtaskWinIsForcedWin ==
    \A w \in WorkerIds :
        LET task == workers[w].task
        IN  (/\ workers[w].pc = "report"
             /\ ~task.is_root_task
             /\ workers[w].result = RESULT_EXACT_WIN
             /\ MoveIdx(game, task.root_move) > 0)
                => RootValue(game, RootMovePos(game, task.root_move)) = 1

\* ------------------------------------------------------------------------
\* the nodes of worker w whose loop is waiting for the dfpn_solve_node call
\* of a child to return: update_pn_dn of these nodes is pending
\* (the root of a split task waits in process_root_task_with_split)
Searching(w) ==
    { workers[w].stack[i].n : i \in 1..(Len(workers[w].stack) - 1) }
        \cup (IF workers[w].ret = "split" THEN { 1 } ELSE { })

\* pn and dn of node n are the OR/AND rule applied to its children: OR has
\* pn = min of child pn and dn = saturating sum of child dn, AND mirrored
RuleHolds(t, n) ==
    LET node == t[n]
        pns == [i \in 1..Len(node.children) |-> t[node.children[i]].pn]
        dns == [i \in 1..Len(node.children) |-> t[node.children[i]].dn]
    IN  IF node.type = NODE_OR
          THEN node.pn = MinFrom(pns, 1, PN_INF) /\ node.dn = SatSum(dns, 1, 0)
          ELSE node.pn = SatSum(pns, 1, 0) /\ node.dn = MinFrom(dns, 1, DN_INF)

\* C26: whenever a node with children is not in the middle of update_pn_dn,
\* its pn and dn equal the OR/AND rule applied to its current children,
\* also after a TT probe on a node that is revisited.  Stated for the nodes
\* that are not waiting for a child's search to return, while no stop or
\* preemption flag is up.
C26_NodeConsistentWithChildren ==
    \A w \in WorkerIds :
        (/\ workers[w].pc = "solve"
         /\ ~found_win /\ ~shutdown /\ ~workers[w].should_abort_task)
            => \A n \in (1..Len(workers[w].tree)) \ Searching(w) :
                  Len(workers[w].tree[n].children) > 0
                      => RuleHolds(workers[w].tree, n)

\* ------------------------------------------------------------------------
\* the step is the return of worker w's innermost dfpn_solve_node call
Returns(w) ==
    /\ workers[w].pc = "solve"
    /\ Len(workers[w].stack) > 0
    /\ \/ workers'[w].pc # "solve"
       \/ Len(workers'[w].stack) < Len(workers[w].stack)

\* position p is not a finished game: a move or a pass is possible
NonTerminal(g, p) == Len(g.pos[p].kids) > 0 \/ g.pos[p].pass # 0

\* C27: when dfpn_solve_node returns from a non-terminal node, either
\* pn >= threshold_pn or dn >= threshold_dn, or the node is proven (pn = 0,
\* dn = 0 or proven Draw), or shutdown, found_win or preemption fired; it
\* never returns an unproven node that is still inside both thresholds.
C27_ReturnsOnlyWhenDue ==
    [][\A w \in WorkerIds :
          LET n == workers[w].stack[Len(workers[w].stack)].n
              node == workers'[w].tree[n]
          IN  (Returns(w) /\ NonTerminal(game, workers[w].tree[n].pos)) =>
                  \/ node.pn >= node.threshold_pn
                  \/ node.dn >= node.threshold_dn
                  \/ node.pn = 0
                  \/ node.dn = 0
                  \/ (node.is_proven /\ node.result = RESULT_EXACT_DRAW)
                  \/ shutdown' \/ found_win'
                  \/ workers'[w].should_abort_task]_vars

\* ------------------------------------------------------------------------
\* the step takes worker w through the terminal-leaf code of
\* dfpn_solve_node: the node entered is a finished position (expand gives
\* it no child), no stop flag is up, the time limit has not fired and the
\* TT probe has not returned a solved entry
LeafStep(w) ==
    LET top == workers[w].stack[Len(workers[w].stack)]
        node == workers[w].tree[top.n]
        entry == TTGet(tt, hash_position(game, node.pos))
    IN  /\ Returns(w)
        /\ top.st = "enter"
        /\ ~NonTerminal(game, node.pos)
        /\ ~found_win /\ ~shutdown /\ ~shutdown'
        /\ ~(/\ tt_probe_hit(tt, hash_position(game, node.pos), node.depth)
             /\ entry.result # RESULT_UNKNOWN
             /\ \/ entry.pn = 0
                \/ entry.dn = 0
                \/ (entry.result = RESULT_EXACT_DRAW /\ entry.pn = PN_INF
                      /\ entry.dn = DN_INF))

\* what the claim gives a leaf of type ty whose side to move has disc
\* score score: result, pn, dn
LeafOutcome(ty, score) ==
    IF score = 0 THEN << RESULT_EXACT_DRAW, PN_INF, DN_INF >>
    ELSE IF (ty = NODE_OR) = (score > 0) THEN << RESULT_EXACT_WIN, 0, DN_INF >>
    ELSE << RESULT_EXACT_LOSE, PN_INF, 0 >>

MaxChildren == 3

\* a child of type ty: not searched yet, proven Win, proven Lose, proven
\* Draw, pn = dn = INF without proof, pn = INF with a finite dn
ChildStates(ty) ==
    LET c == [ZeroNode EXCEPT !.type = ty]
    IN  { [c EXCEPT !.pn = 1, !.dn = 1],
          [c EXCEPT !.pn = 0, !.dn = DN_INF, !.result = RESULT_EXACT_WIN,
                    !.is_proven = TRUE],
          [c EXCEPT !.pn = PN_INF, !.dn = 0, !.result = RESULT_EXACT_LOSE,
                    !.is_proven = TRUE],
          [c EXCEPT !.pn = PN_INF, !.dn = DN_INF, !.result = RESULT_EXACT_DRAW,
                    !.is_proven = TRUE],
          [c EXCEPT !.pn = PN_INF, !.dn = DN_INF],
          [c EXCEPT !.pn = PN_INF, !.dn = 1] }

\* what the search of a child can turn it into
SearchedStates(ty) ==
    { c \in ChildStates(ty) : c.pn # 1 \/ c.dn # 1 }

UpdateInit ==
    /\ Parked
    /\ shared_array = << >>
    /\ \E ty \in {NODE_OR, NODE_AND}, k \in 1..MaxChildren,
          res \in {RESULT_UNKNOWN, RESULT_EXACT_WIN, RESULT_EXACT_LOSE} :
          \E kids \in [1..k -> ChildStates(OtherType(ty))] :
              workers = [pc |-> "expanded",
                         tree |-> << [ZeroNode EXCEPT
                                         !.type = ty, !.pn = 1, !.dn = 1,
                                         !.result = res,
                                         !.threshold_pn = PN_INF + 1,
                                         !.threshold_dn = DN_INF + 1,
                                         !.children = [i \in 1..k |-> i + 1]] >>
                                     \o kids]

\* child = select_best_child_with_priority(node); dfpn_solve_node(child)
SearchChild ==
    LET t == workers.tree
        node == t[1]
        ci == select_best_child_with_priority(t, 1)
    IN  /\ workers.pc \in {"expanded", "updated"}
        /\ node.pn > 0 /\ node.dn > 0
        /\ node.pn < PN_INF /\ node.dn < DN_INF
        /\ ci # 0
        /\ t[node.children[ci]].pn = 1 /\ t[node.children[ci]].dn = 1
        /\ \E c \in SearchedStates(OtherType(node.type)) :
              workers' = [workers EXCEPT !.pc = "searched",
                                         !.tree[node.children[ci]] = c]
        /\ UNCHANGED << parked, shared_array >>

\* update_pn_dn(node)
UpdateNode ==
    /\ workers.pc = "searched"
    /\ workers' = [workers EXCEPT !.pc = "updated",
                                  !.tree[1] = update_pn_dn(workers.tree, 1)]
    /\ UNCHANGED << parked, shared_array >>

UpdateNext == SearchChild \/ UpdateNode

UpdateSpec == UpdateInit /\ [][UpdateNext]_vars

\* child c is proven: pn = 0, dn = 0, or marked is_proven with result Draw
ChildProven(c) ==
    c.pn = 0 \/ c.dn = 0 \/ (c.is_proven /\ c.result = RESULT_EXACT_DRAW)

\* C29: update_pn_dn gives a node the result Draw (pn = dn = INF,
\* is_proven) only if every child is proven and at least one child is a
\* proven Draw; a child with pn = dn = INF that is not marked is_proven
\* never counts.
C29_DrawOnlyFromProvenChildren ==
    LET t == workers.tree
        node == t[1]
    IN  (/\ workers.pc = "updated"
         /\ node.result = RESULT_EXACT_DRAW
         /\ node.is_proven)
            => /\ node.pn = PN_INF /\ node.dn = DN_INF
               /\ \A i \in 1..Len(node.children) : ChildProven(t[node.children[i]])
               /\ \E i \in 1..Len(node.children) :
                     /\ t[node.children[i]].is_proven
                     /\ t[node.children[i]].result = RESULT_EXACT_DRAW

\* update_pn_dn has made an OR node a proven Draw from a proven Draw and a
\* proven Lose
C29_Witness ==
    LET t == workers.tree
        node == t[1]
    IN  /\ workers.pc = "updated"
        /\ node.type = NODE_OR
        /\ node.result = RESULT_EXACT_DRAW
        /\ node.is_proven
        /\ Len(node.children) = 2
        /\ t[2].result = RESULT_EXACT_DRAW
        /\ t[3].result = RESULT_EXACT_LOSE

\* ------------------------------------------------------------------------
\* SchedSpec: the task loop of worker_thread with the search of a task left
\* out.  A worker reads is_fast_sharing_mode at the head of
\* get_next_task_hybrid and takes a task (or fails and clears its busy bit)
\* in a later step; processing a task ends in spawn_child_tasks, which adds
\* subtasks and may export.  All SchedWorkers threads have started and the
\* SharedTaskArray holds the root tasks.
SchedWorkers == 3
SpawnBatch == 20
MaxGeneration == 1

SchedIds == 1 .. SchedWorkers

SchedTask(root_move, generation) ==
    [NoTask EXCEPT !.root_move = root_move, !.generation = generation]

SchedIdle == [pc |-> "get", local_heap |-> << >>, task |-> NoTask,
              fast_sharing |-> FALSE, is_busy |-> FALSE]

SchedInit ==
    /\ game = MkGame(<< LeafFor("D", TRUE, 0) >>, << >>)
    /\ time_limit = 0
    /\ num_threads = SchedWorkers
    /\ pc_main = "wait"
    /\ final_result = RESULT_UNKNOWN
    /\ best_move = -1
    /\ tt = << >>
    /\ move_results = << >>
    /\ found_win = FALSE
    /\ winning_move = 0
    /\ shutdown = FALSE
    /\ tasks_completed = 0
    /\ shared_array = [i \in SchedIds |-> SchedTask(i, 0)]
    /\ global_chunk_queue = EmptyQueue
    /\ busy = {}
    /\ active_workers = SchedWorkers
    /\ workers = [w \in SchedIds |-> SchedIdle]

sched_rest == << game, time_limit, num_threads, pc_main, final_result, best_move,
                 tt, move_results, found_win, winning_move, shutdown,
                 tasks_completed, active_workers >>

\* get_next_task_hybrid: bool fast_sharing = is_fast_sharing_mode(g)
SchedRead(w) ==
    /\ workers[w].pc = "get"
    /\ workers' = [workers EXCEPT
            ![w].pc = "take",
            ![w].fast_sharing = is_fast_sharing_mode(busy_count, active_workers,
                                                     num_threads)]
    /\ UNCHANGED << sched_rest, shared_array, global_chunk_queue, busy >>

\* the rest of get_next_task_hybrid, and the busy bit of worker_thread
SchedTake(w) ==
    LET me == workers[w]
    IN  /\ me.pc = "take"
        /\ \E r \in { get_next_task_hybrid(me.local_heap, shared_array,
                                           global_chunk_queue, me.fast_sharing) } :
              /\ shared_array' = r.sa
              /\ global_chunk_queue' = r.gq
              /\ IF r.ok
                   THEN /\ busy' = busy \cup {w}
                        /\ workers' = [workers EXCEPT ![w] =
                               [me EXCEPT !.pc = "task", !.task = r.task,
                                          !.local_heap = r.lh, !.is_busy = TRUE]]
                   ELSE /\ busy' = busy \ {w}
                        /\ workers' = [workers EXCEPT ![w] =
                               [me EXCEPT !.pc = "get", !.is_busy = FALSE]]
        /\ UNCHANGED sched_rest

\* the spawn loop for k subtasks: under fast sharing the first goes to the
\* LocalHeap and the others to the SharedTaskArray, otherwise all go to the
\* LocalHeap
RECURSIVE SchedPush(_, _, _, _, _, _)
SchedPush(k, spawned, fast_sharing, subtask, lh, sa) ==
    IF spawned >= k THEN [lh |-> lh, sa |-> sa]
    ELSE IF ~fast_sharing \/ spawned = 0
      THEN SchedPush(k, spawned + 1, fast_sharing, subtask,
                     local_heap_push(lh, subtask), sa)
      ELSE SchedPush(k, spawned + 1, fast_sharing, subtask, lh, Append(sa, subtask))

\* the number of subtasks a task can spawn: the first root move has up to
\* SpawnBatch replies, the other root moves none; deeper tasks up to two,
\* down to MaxGeneration
SpawnCounts(task) ==
    IF task.generation = 0 THEN (IF task.root_move = 1 THEN {0, SpawnBatch} ELSE {0})
    ELSE IF task.generation < MaxGeneration THEN {0, 2}
    ELSE {0}

\* process_task to its end: spawn_child_tasks with k subtasks; when 1000
\* nodes have passed since the last check (due), the idle-driven export to
\* the SharedTaskArray and, outside fast sharing, check_and_export
SchedSpawn(w) ==
    LET me == workers[w]
        fast_sharing == is_fast_sharing_mode(busy_count, active_workers, num_threads)
        has_idle == busy_count < num_threads
    IN  /\ me.pc = "task"
        /\ \E k \in SpawnCounts(me.task), due \in BOOLEAN :
              \E sp \in { SchedPush(k, 0, fast_sharing,
                                    SchedTask(me.task.root_move, me.task.generation + 1),
                                    me.local_heap, shared_array) } :
              \E idle \in { IF due /\ has_idle /\ Len(sp.lh) > 1
                              THEN share_remaining_tasks(sp.lh, sp.sa) ELSE sp } :
              \E ex \in { IF due /\ ~fast_sharing
                            THEN check_and_export(idle.lh, global_chunk_queue)
                            ELSE [lh |-> idle.lh, gq |-> global_chunk_queue] } :
                  /\ shared_array' = idle.sa
                  /\ global_chunk_queue' = ex.gq
                  /\ workers' = [workers EXCEPT ![w] =
                         [me EXCEPT !.pc = "get", !.local_heap = ex.lh]]
        /\ UNCHANGED << sched_rest, busy >>

SchedNext ==
    \/ \E w \in SchedIds : SchedRead(w)
    \/ \E w \in SchedIds : SchedTake(w)
    \/ \E w \in SchedIds : SchedSpawn(w)

SchedSpec == SchedInit /\ [][SchedNext]_vars

\* C30: get_next_task_hybrid fails (and the worker goes idle) only when the
\* worker's LocalHeap, the GlobalChunkQueue and the SharedTaskArray are all
\* empty; a worker never goes idle while a chunk is available in the
\* GlobalChunkQueue.
C30_FailsOnlyWhenAllEmpty ==
    [][\A w \in SchedIds :
          (workers[w].pc = "take" /\ workers'[w].pc = "get") =>
              /\ Len(workers[w].local_heap) = 0
              /\ Len(global_chunk_queue.heap) = 0
              /\ Len(shared_array) = 0]_vars

\* ------------------------------------------------------------------------
\* the root task of root move i is pending in a tier, or a worker holds it
\* between get_next_task_hybrid and the end of its turn in worker_thread
IsRootTaskOf(task, i) ==
    task.is_root_task /\ task.root_move = MoveList(game)[i]

Processing == {"task", "solve", "split", "fallback", "finish", "report",
               "store_win", "fallback_win", "after"}

RootTaskHeld(i) ==
    \/ \E w \in WorkerIds :
          \/ \E k \in 1..Len(workers[w].local_heap) :
                IsRootTaskOf(workers[w].local_heap[k], i)
          \/ workers[w].pc \in Processing /\ IsRootTaskOf(workers[w].task, i)
    \/ \E k \in 1..Len(shared_array) : IsRootTaskOf(shared_array[k], i)
    \/ \E c \in 1..Len(global_chunk_queue.heap) :
          \E k \in 1..Len(global_chunk_queue.heap[c].tasks) :
             IsRootTaskOf(global_chunk_queue.heap[c].tasks[k], i)

\* C31: while a root move's result is Unknown and neither shutdown nor
\* found_win is set, its root task is pending in a LocalHeap, in a chunk of
\* the GlobalChunkQueue or in the SharedTaskArray, or a worker is processing
\* it.
C31_UnprovenRootTaskKept ==
    (pc_main = "wait" /\ ~shutdown /\ ~found_win) =>
        \A i \in 1..NMoves(game) :
            move_results[i] = RESULT_UNKNOWN => RootTaskHeld(i)

\* ------------------------------------------------------------------------
\* TierSpec: worker_thread with the search of a task left out, from states
\* of a run in which the tiers are filled: WorkerLoop, WorkerGet and
\* AfterTask as above; process_task is TierStart, TierHit and TierFinish.
\* The SharedTaskArray holds root tasks that no worker has taken yet.  Every worker has just finished a task (its
\* busy bit is set).  A task with pos = k stands for the k-th task of the
\* run.
MaxProcessed == 2

TierTask(k, priority) ==
    [NoTask EXCEPT !.pos = k, !.root_move = 0, !.priority = priority,
                   !.generation = 1]

\* a root task as solve_endgame pushes it
TierRootTask(k) ==
    [TierTask(k, 0) EXCEPT !.is_root_task = TRUE, !.generation = 0]

\* a LocalHeap after n pushes in descending order of priority (each task
\* stays where local_heap_push appends it), of tasks base + 1 .. base + n with
\* priorities lo + 2, lo + 1, lo
TierHeap(base, n, lo) ==
    [k \in 1..n |-> TierTask(base + k, lo + 2 - (((k - 1) * 3) \div n))]

\* a chunk as export_top_chunk builds it
TierChunk(base, top) ==
    [tasks |-> [k \in 1..CHUNK_SIZE |-> TierTask(base + k, top - (k \div 8))],
     top_priority |-> top]

\* a GlobalChunkQueue after n pushes into the empty queue
RECURSIVE TierQueue(_, _)
TierQueue(n, top) ==
    IF n = 0 THEN EmptyQueue
    ELSE global_chunk_queue_push(TierQueue(n - 1, top),
                                 TierChunk(5000 + n * CHUNK_SIZE, top + n))

\* a GlobalChunkQueue at capacity, of chunks of one priority
FullQueue ==
    [heap |-> [c \in 1..GLOBAL_QUEUE_CAPACITY |-> TierChunk(5000, 0)],
     top_priority |-> 0]

TierHeapSizes == {0, 1, 17, 20, 23, 40}

TierScenarios ==
    { [h1 |-> TierHeap(0, a, 1), h2 |-> TierHeap(2000, b, 7), gq |-> TierQueue(c, 3),
       sa |-> d] : a \in TierHeapSizes, b \in {0, 21}, c \in 0..2, d \in 0..2 }
    \cup
    { [h1 |-> TierHeap(0, a, 1), h2 |-> TierHeap(2000, 21, 7), gq |-> TierQueue(1, 3),
       sa |-> 0] : a \in {LOCAL_HEAP_CAPACITY - CHUNK_SIZE, LOCAL_HEAP_CAPACITY} }
    \cup
    { [h1 |-> TierHeap(0, 40, 1), h2 |-> << >>, gq |-> FullQueue, sa |-> 1] }

TierWorker(local_heap) ==
    [tasks_processed |-> 0] @@
    [ZeroWorker EXCEPT !.pc = "loop", !.local_heap = local_heap, !.is_busy = TRUE]

TierInit ==
    /\ game = MkGame(<< LeafFor("D", TRUE, 0) >>, << >>)
    /\ time_limit = 0
    /\ num_threads = MaxThreads
    /\ pc_main = "wait"
    /\ final_result = RESULT_UNKNOWN
    /\ best_move = -1
    /\ tt = << >>
    /\ move_results = << >>
    /\ found_win = FALSE
    /\ winning_move = 0
    /\ shutdown = FALSE
    /\ tasks_completed = 0
    /\ busy = WorkerIds
    /\ active_workers = MaxThreads
    /\ \E sc \in TierScenarios :
          /\ workers = [w \in WorkerIds |->
                           TierWorker(IF w = 1 THEN sc.h1 ELSE sc.h2)]
          /\ global_chunk_queue = sc.gq
          /\ shared_array = [k \in 1..sc.sa |-> TierRootTask(4000 + k)]

\* process_task up to the search: a generation-0 root task goes to
\* process_root_task_with_split, any other task records its priority and
\* clears should_abort_task
TierStart(w) ==
    LET me == workers[w]
        split == me.task.is_root_task /\ me.task.generation = 0
    IN  /\ me.pc = "task"
        /\ me.tasks_processed < MaxProcessed
        /\ workers' = Set(w,
              IF split THEN [me EXCEPT !.pc = "solve", !.tasks_processed = @ + 1]
              ELSE [me EXCEPT !.pc = "solve", !.tasks_processed = @ + 1,
                              !.current_task_priority = me.task.priority,
                              !.should_abort_task = FALSE])
        /\ UNCHANGED << inputs, orch, tt, shared_array, global_chunk_queue, bitmap,
                        results, flags >>

\* a TT hit in dfpn_solve_node: should_switch_to_global
TierHit(w) ==
    LET me == workers[w]
    IN  /\ me.pc = "solve"
        /\ global_chunk_queue.top_priority > me.current_task_priority
        /\ workers' = Set(w, [me EXCEPT !.should_abort_task = TRUE])
        /\ UNCHANGED << inputs, orch, tt, shared_array, global_chunk_queue, bitmap,
                        results, flags >>

\* the search returns.  process_task: with should_abort_task the task is
\* aborted for a Global switch; otherwise it completes and, when 1000 nodes
\* have passed since the last check (due), spawn_child_tasks runs its
\* idle-driven export and, outside fast sharing, check_and_export.
\* process_root_task_with_split: the task completes, and a root that is not
\* proven is pushed as a retry task.
TierFinish(w) ==
    LET me == workers[w]
        split == me.task.is_root_task /\ me.task.generation = 0
        fast_sharing == is_fast_sharing_mode(busy_count, active_workers, num_threads)
        has_idle == busy_count < num_threads
        aborted == ~split /\ me.should_abort_task
        retry == [me.task EXCEPT !.priority = @ - 100, !.generation = 1]
    IN  /\ me.pc = "solve"
        /\ \E proven \in BOOLEAN, due \in BOOLEAN :
              /\ (proven \/ due) => ~aborted
              /\ proven => split
              /\ due => ~split
              /\ \E idle \in { IF due /\ has_idle /\ Len(me.local_heap) > 1
                                 THEN share_remaining_tasks(me.local_heap, shared_array)
                                 ELSE [lh |-> me.local_heap, sa |-> shared_array] } :
                 \E ex \in { IF due /\ ~fast_sharing
                               THEN check_and_export(idle.lh, global_chunk_queue)
                               ELSE [lh |-> idle.lh, gq |-> global_chunk_queue] } :
                    /\ shared_array' = idle.sa
                    /\ global_chunk_queue' = ex.gq
                    /\ workers' = Set(w, [me EXCEPT
                           !.pc = "after",
                           !.task_completed = ~aborted,
                           !.local_heap = IF split /\ ~proven
                                            THEN local_heap_push(ex.lh, retry)
                                            ELSE ex.lh])
        /\ UNCHANGED << inputs, orch, tt, bitmap, results, flags >>

TierNext ==
    \/ \E w \in WorkerIds : WorkerLoop(w)
    \/ \E w \in WorkerIds : WorkerGet(w)
    \/ \E w \in WorkerIds : TierStart(w)
    \/ \E w \in WorkerIds : TierHit(w)
    \/ \E w \in WorkerIds : TierFinish(w)
    \/ \E w \in WorkerIds : AfterTask(w)

TierSpec == TierInit /\ [][TierNext]_vars

\* C32: a preempted task is pushed back into the worker's LocalHeap before a
\* chunk is imported, so that it stays pending, also when the LocalHeap is at
\* capacity (neither shutdown nor found_win is set).
C32_PreemptedTaskKept ==
    [][\A w \in WorkerIds :
          (/\ workers[w].pc = "after"
           /\ ~workers[w].task_completed
           /\ ~shutdown /\ ~found_win
           /\ workers'[w].pc = "loop")
          => \E k \in 1..Len(workers'[w].local_heap) :
                workers'[w].local_heap[k] = workers[w].task]_vars

\* C33: should_abort_task is set only when GlobalChunkQueue.top_priority
\* strictly exceeds the priority of the task the worker is executing
\* (generation-0 root tasks of the root split included), and it is clear when
\* the search of a task starts, so that a flag raised during one task never
\* aborts the next.
C33_AbortFlagOfCurrentTask ==
    [][\A w \in WorkerIds :
          /\ (~workers[w].should_abort_task /\ workers'[w].should_abort_task)
                => global_chunk_queue.top_priority > workers[w].task.priority
          /\ (workers[w].pc = "task" /\ workers'[w].pc = "solve")
                => ~workers'[w].should_abort_task]_vars

\* ------------------------------------------------------------------------
\* a child that is proven: Win or Lose (pn = 0 or dn = 0), or a proven Draw
ProvenChild(c) ==
    c.pn = 0 \/ c.dn = 0 \/ (c.is_proven /\ c.pn = PN_INF /\ c.dn = DN_INF)

\* SpawnSpec: a worker searches the root of a subtask (dfpn_solve_node's
\* loop on node 1, whose children are leaves of the search so far) and then
\* runs the spawn_child_tasks call of process_task.  workers is the record
\* of that worker; the other workers are idle.
SpawnDepth == 6

SpawnInit ==
    /\ game = MkGame(<< LeafFor("D", TRUE, 0) >>, << >>)
    /\ time_limit = 0
    /\ num_threads = MaxThreads
    /\ pc_main = "wait"
    /\ final_result = RESULT_UNKNOWN
    /\ best_move = -1
    /\ tt = << >>
    /\ global_chunk_queue = EmptyQueue
    /\ busy = {1}
    /\ active_workers = MaxThreads
    /\ move_results = << >>
    /\ found_win = FALSE
    /\ winning_move = 0
    /\ shutdown = FALSE
    /\ tasks_completed = 0
    /\ shared_array = << >>
    /\ \E ty \in {NODE_OR, NODE_AND}, k \in 1..MaxChildren, ev \in {0, 3} :
          workers =
            [ZeroWorker EXCEPT
               !.pc = "expanded", !.is_busy = TRUE,
               !.task = [NoTask EXCEPT !.pos = 1, !.root_move = 0, !.priority = 10000,
                                       !.depth = SpawnDepth, !.node_type = ty,
                                       !.generation = 1],
               !.tree = << [ZeroNode EXCEPT
                               !.pos = 1, !.type = ty, !.pn = 1, !.dn = 1,
                               !.depth = SpawnDepth,
                               !.threshold_pn = PN_INF + 1,
                               !.threshold_dn = DN_INF + 1,
                               !.children = [i \in 1..k |-> i + 1]] >>
                           \o [i \in 1..k |->
                                 [ZeroNode EXCEPT !.pos = i + 1, !.pn = 1, !.dn = 1,
                                                  !.type = OtherType(ty),
                                                  !.eval_score = ev * i,
                                                  !.depth = SpawnDepth - 1]]]

\* the while condition of dfpn_solve_node on node
SearchGoesOn(node) ==
    /\ node.pn > 0 /\ node.dn > 0
    /\ node.pn < PN_INF /\ node.dn < DN_INF
    /\ node.pn < node.threshold_pn /\ node.dn < node.threshold_dn

\* one iteration of the loop: child = select_best_child_with_priority(node);
\* dfpn_solve_node(child); update_pn_dn(node)
SpawnSearch ==
    LET t == workers.tree
        ci == select_best_child_with_priority(t, 1)
        n == t[1].children[ci]
    IN  /\ workers.pc = "expanded"
        /\ SearchGoesOn(t[1])
        /\ ci # 0
        /\ t[n].pn = 1 /\ t[n].dn = 1
        /\ \E c \in SearchedStates(t[n].type) :
              LET t1 == [t EXCEPT ![n].pn = c.pn, ![n].dn = c.dn,
                                  ![n].result = c.result,
                                  ![n].is_proven = c.is_proven]
              IN  workers' = [workers EXCEPT
                                !.nodes = @ + 1,
                                !.tree = [t1 EXCEPT ![1] = update_pn_dn(t1, 1)]]
        /\ UNCHANGED << parked, shared_array >>

\* process_task after dfpn_solve_node has returned: "Spawn child tasks for
\* parallel exploration if not yet proven"
SpawnChildren ==
    LET root == workers.tree[1]
        sp == IF Len(root.children) > 0 /\ root.pn > 0 /\ root.dn > 0
                 /\ ~found_win /\ ~shutdown
                THEN spawn_child_tasks(workers, 1, workers.task, busy_count,
                                       active_workers, num_threads, shared_array,
                                       global_chunk_queue)
                ELSE [me |-> workers, sa |-> shared_array, gq |-> global_chunk_queue]
    IN  /\ workers.pc = "expanded"
        /\ ~SearchGoesOn(root)
        /\ workers' = [sp.me EXCEPT !.pc = "spawned"]
        /\ shared_array' = sp.sa
        /\ global_chunk_queue' = sp.gq
        /\ UNCHANGED << game, time_limit, num_threads, pc_main, final_result, best_move,
                        tt, busy, active_workers, move_results, found_win,
                        winning_move, shutdown, tasks_completed >>

SpawnNext == SpawnSearch \/ SpawnChildren

SpawnSpec == SpawnInit /\ [][SpawnNext]_vars

\* the subtasks in the LocalHeap and the SharedTaskArray of SpawnSpec
SpawnedTasks == TaskSet(workers.local_heap) \cup TaskSet(shared_array)

\* C34: no spawn site (root split, early spawn, mid-search spawn,
\* spawn_child_tasks) creates a subtask for a child that is already proven,
\* be it Win, Lose or Draw: after spawn_child_tasks no subtask stands for a
\* proven child of the node.
C34_NoSubtaskForProvenChild ==
    workers.pc = "spawned" =>
       \A x \in SpawnedTasks :
          \A n \in 2..Len(workers.tree) :
             workers.tree[n].pos = x.pos => ~ProvenChild(workers.tree[n])

\* ------------------------------------------------------------------------
\* the chunks a step adds to the GlobalChunkQueue
ExportedChunks ==
    { c \in TaskSet(global_chunk_queue'.heap) : c \notin TaskSet(global_chunk_queue.heap) }

\* C35: check_and_export exports only from a LocalHeap of at least
\* LOCAL_EXPORT_THRESHOLD (20) tasks; every chunk export_top_chunk builds
\* holds CHUNK_SIZE tasks in descending priority order, its top_priority is
\* tasks[0].priority, the maximum of the chunk; the worker keeps a task of
\* its highest priority on top of its LocalHeap, and the chunk holds the next
\* best ones: no task left in the LocalHeap other than the kept one beats a
\* task of the chunk.
C35_ExportKeepsBestTask ==
    [][\A w \in WorkerIds :
          (/\ workers[w].pc = "solve" /\ workers'[w].pc = "after"
           /\ Len(global_chunk_queue'.heap) > Len(global_chunk_queue.heap)) =>
             LET before == workers[w].local_heap
                 after == workers'[w].local_heap
             IN  /\ Len(before) >= LOCAL_EXPORT_THRESHOLD
                 /\ Len(after) >= 1
                 /\ after[1].priority = before[1].priority
                 /\ \A c \in ExportedChunks :
                       /\ Len(c.tasks) = CHUNK_SIZE
                       /\ c.top_priority = c.tasks[1].priority
                       /\ \A k \in 1..Len(c.tasks) :
                             /\ c.tasks[k] \in TaskSet(before)
                             /\ c.tasks[k].priority <= c.top_priority
                             /\ k > 1 => c.tasks[k].priority <= c.tasks[k - 1].priority
                             /\ c.tasks[k].priority <= after[1].priority
                             /\ \A j \in 2..Len(after) :
                                   after[j].priority <= c.tasks[k].priority]_vars

\* a chunk of tasks exported from a LocalHeap is in the GlobalChunkQueue
C35_Witness ==
    /\ Len(global_chunk_queue.heap) <= 4
    /\ \E i \in 1..Len(global_chunk_queue.heap) :
          /\ global_chunk_queue.heap[i].tasks[1].pos < 4000
          /\ \E w \in WorkerIds : workers[w].pc = "after"

\* ------------------------------------------------------------------------
\* QueueSpec: threads push chunks into the GlobalChunkQueue and pop them,
\* each call in the steps the mutex orders: lock, the heap update, the
\* atomic_store of top_priority, unlock.  global_chunk_queue carries the
\* owner of the mutex (0: free); workers holds each thread's position, the
\* chunk it pushes or has popped, and the value it is about to store.
QueueThreads == 1..2

QueuePriorities == {1, 2, 3}

MaxQueue == 4

QueueChunk(p) == [tasks |-> << TierTask(p, p) >>, top_priority |-> p]

QueueInit ==
    /\ game = MkGame(<< LeafFor("D", TRUE, 0) >>, << >>)
    /\ time_limit = 0
    /\ num_threads = MaxThreads
    /\ pc_main = "wait"
    /\ final_result = RESULT_UNKNOWN
    /\ best_move = -1
    /\ tt = << >>
    /\ busy = {}
    /\ active_workers = 0
    /\ move_results = << >>
    /\ found_win = FALSE
    /\ winning_move = 0
    /\ shutdown = FALSE
    /\ tasks_completed = 0
    /\ shared_array = << >>
    /\ global_chunk_queue = [heap |-> << >>, top_priority |-> INT_MIN, mutex |-> 0]
    /\ workers = [t \in QueueThreads |->
                    [pc |-> "idle", chunk |-> QueueChunk(1), top |-> INT_MIN]]

queue_rest == << game, time_limit, num_threads, pc_main, final_result, best_move, tt,
                 busy, active_workers, move_results, found_win, winning_move,
                 shutdown, tasks_completed, shared_array >>

\* pthread_mutex_lock(&gq->mutex) of a push of a chunk of priority p
QueueLockPush(t) ==
    /\ workers[t].pc = "idle"
    /\ global_chunk_queue.mutex = 0
    /\ Len(global_chunk_queue.heap) < MaxQueue
    /\ \E p \in QueuePriorities :
          workers' = [workers EXCEPT ![t].pc = "push", ![t].chunk = QueueChunk(p)]
    /\ global_chunk_queue' = [global_chunk_queue EXCEPT !.mutex = t]
    /\ UNCHANGED queue_rest

\* pthread_mutex_lock(&gq->mutex) of a pop
QueueLockPop(t) ==
    /\ workers[t].pc = "idle"
    /\ global_chunk_queue.mutex = 0
    /\ workers' = [workers EXCEPT ![t].pc = "pop"]
    /\ global_chunk_queue' = [global_chunk_queue EXCEPT !.mutex = t]
    /\ UNCHANGED queue_rest

\* the body of global_chunk_queue_push up to the sift-up, or of
\* global_chunk_queue_pop up to the sift-down; a pop of an empty queue and a
\* push into a full one go straight to the unlock
QueueUpdate(t) ==
    LET gq == [heap |-> global_chunk_queue.heap,
               top_priority |-> global_chunk_queue.top_priority]
        failed == IF workers[t].pc = "push"
                    THEN Len(gq.heap) >= GLOBAL_QUEUE_CAPACITY
                    ELSE Len(gq.heap) = 0
        r == IF workers[t].pc = "push"
               THEN global_chunk_queue_push(gq, workers[t].chunk)
               ELSE global_chunk_queue_pop(gq)
    IN  /\ workers[t].pc \in {"push", "pop"}
        /\ global_chunk_queue.mutex = t
        /\ IF failed
             THEN /\ workers' = [workers EXCEPT ![t].pc = "unlock"]
                  /\ UNCHANGED global_chunk_queue
             ELSE /\ workers' = [workers EXCEPT
                                   ![t].pc = "store", ![t].top = r.top_priority,
                                   ![t].chunk = IF workers[t].pc = "pop"
                                                  THEN gq.heap[1] ELSE @]
                  /\ global_chunk_queue' = [global_chunk_queue EXCEPT !.heap = r.heap]
        /\ UNCHANGED queue_rest

\* atomic_store(&gq->top_priority, ...)
QueueStore(t) ==
    /\ workers[t].pc = "store"
    /\ global_chunk_queue.mutex = t
    /\ workers' = [workers EXCEPT ![t].pc = "unlock"]
    /\ global_chunk_queue' = [global_chunk_queue EXCEPT !.top_priority = workers[t].top]
    /\ UNCHANGED queue_rest

\* pthread_mutex_unlock(&gq->mutex)
QueueUnlock(t) ==
    /\ workers[t].pc = "unlock"
    /\ global_chunk_queue.mutex = t
    /\ workers' = [workers EXCEPT ![t].pc = "idle"]
    /\ global_chunk_queue' = [global_chunk_queue EXCEPT !.mutex = 0]
    /\ UNCHANGED queue_rest

QueueNext ==
    \E t \in QueueThreads :
       \/ QueueLockPush(t)
       \/ QueueLockPop(t)
       \/ QueueUpdate(t)
       \/ QueueStore(t)
       \/ QueueUnlock(t)

QueueSpec == QueueInit /\ [][QueueNext]_vars

\* C36: whenever the GlobalChunkQueue mutex is free, the atomic top_priority
\* is the top_priority of the root chunk of the heap, or INT_MIN when the
\* queue is empty, and no queued chunk has a higher top_priority than the
\* root chunk.
C36_TopPriorityOfFreeQueue ==
    global_chunk_queue.mutex = 0 =>
       LET heap == global_chunk_queue.heap
       IN  IF Len(heap) = 0 THEN global_chunk_queue.top_priority = INT_MIN
           ELSE /\ global_chunk_queue.top_priority = heap[1].top_priority
                /\ \A i \in 1..Len(heap) : heap[i].top_priority <= heap[1].top_priority

\* the mutex is free after a pop that left chunks of different priorities,
\* the root not being the chunk pushed last
C36_Witness ==
    /\ global_chunk_queue.mutex = 0
    /\ Len(global_chunk_queue.heap) >= 2
    /\ \E i \in 2..Len(global_chunk_queue.heap) :
          global_chunk_queue.heap[i].top_priority < global_chunk_queue.heap[1].top_priority
    /\ \E t \in QueueThreads :
          /\ workers[t].top = global_chunk_queue.top_priority
          /\ workers[t].chunk.top_priority > global_chunk_queue.top_priority

\* ------------------------------------------------------------------------
\* ThresholdSpec: the descent of dfpn_solve_node through the levels of the
\* tree.  workers holds the node being searched (tree[1]) with its two
\* children, the level of the node, and the child the loop has called.  The
\* search of the called child either returns with new numbers, or is
\* followed into the child, which becomes the node.  Thresholds are
\* uint32_t; the values from 2^31 - 1 on, which a 32-bit signed integer
\* cannot tell apart, are all written Int32Max.
Int32Max == 2147483647

\* x modulo 2^32 for an x of -(2^31 - 1)..(2^31 - 1): a negative x wraps to a
\* value above 2^31
Uint32(x) == IF x < 0 THEN Int32Max ELSE x

\* the levels of the deepest descent followed
MaxLevel == 8

\* the range of int16_t eval_score
EvalMin == 0 - 32768

EvalMax == 32767

\* children as expand_node_with_evaluation makes them, with the evaluations
\* as far apart as int16_t allows
FreshChildren(ty, depth) ==
    [i \in 1..2 |-> [ZeroNode EXCEPT !.pos = i + 1, !.pn = 1, !.dn = 1, !.type = ty,
                                     !.eval_score = IF i = 1 THEN EvalMax ELSE EvalMin,
                                     !.depth = depth]]

\* the numbers a child comes back with: unproven with a large pn or a large
\* dn, proven Win, Lose or Draw, or pn = INF with a small dn
ReturnedStates ==
    { [pn |-> 2, dn |-> 65000, result |-> RESULT_UNKNOWN, is_proven |-> FALSE],
      [pn |-> 65000, dn |-> 2, result |-> RESULT_UNKNOWN, is_proven |-> FALSE],
      [pn |-> 0, dn |-> DN_INF, result |-> RESULT_EXACT_WIN, is_proven |-> TRUE],
      [pn |-> PN_INF, dn |-> 0, result |-> RESULT_EXACT_LOSE, is_proven |-> TRUE],
      [pn |-> PN_INF, dn |-> DN_INF, result |-> RESULT_EXACT_DRAW, is_proven |-> TRUE],
      [pn |-> PN_INF, dn |-> 3, result |-> RESULT_UNKNOWN, is_proven |-> FALSE] }

ThresholdInit ==
    /\ Parked
    /\ shared_array = << >>
    /\ \E ty \in {NODE_OR, NODE_AND} :
          workers = [pc |-> "loop", level |-> 0, called |-> 0,
                     tree |-> << [ZeroNode EXCEPT
                                     !.pos = 1, !.type = ty, !.pn = 1, !.dn = 1,
                                     !.depth = MaxLevel,
                                     !.threshold_pn = PN_INF + 1,
                                     !.threshold_dn = DN_INF + 1,
                                     !.children = << 2, 3 >>] >>
                                 \o FreshChildren(OtherType(ty), MaxLevel - 1)]

\* the thresholds dfpn_solve_node gives the child it is about to search
ChildThresholds(node, child) ==
    IF node.type = NODE_OR
      THEN [child EXCEPT
              !.threshold_pn = Uint32(node.threshold_dn - node.dn + child.dn),
              !.threshold_dn = node.threshold_pn]
      ELSE [child EXCEPT
              !.threshold_pn = node.threshold_pn,
              !.threshold_dn = Uint32(node.threshold_dn - node.dn + child.dn)]

\* the loop selects a child and sets its thresholds
ThresholdSet ==
    LET t == workers.tree
        ci == select_best_child_with_priority(t, 1)
        n == t[1].children[ci]
    IN  /\ workers.pc = "loop"
        /\ SearchGoesOn(t[1])
        /\ ci # 0
        /\ workers' = [workers EXCEPT !.pc = "call", !.called = n,
                                      !.tree[n] = ChildThresholds(t[1], t[n])]
        /\ UNCHANGED << parked, shared_array >>

\* dfpn_solve_node(child) returns; update_pn_dn(node)
ThresholdReturn ==
    LET t == workers.tree
        n == workers.called
    IN  /\ workers.pc = "call"
        /\ \E c \in ReturnedStates :
              LET t1 == [t EXCEPT ![n].pn = c.pn, ![n].dn = c.dn,
                                  ![n].result = c.result,
                                  ![n].is_proven = c.is_proven]
              IN  workers' = [workers EXCEPT
                                !.pc = "loop",
                                !.tree = [t1 EXCEPT ![1] = update_pn_dn(t1, 1)]]
        /\ UNCHANGED << parked, shared_array >>

\* dfpn_solve_node(child) is followed: the child is expanded and is the node
\* of the next level
ThresholdDescend ==
    LET t == workers.tree
        child == t[workers.called]
    IN  /\ workers.pc = "call"
        /\ workers.level < MaxLevel - 1
        /\ workers' = [workers EXCEPT
                         !.pc = "loop", !.level = @ + 1, !.called = 0,
                         !.tree = << [child EXCEPT !.pos = 1, !.children = << 2, 3 >>] >>
                                  \o FreshChildren(OtherType(child.type),
                                                   child.depth - 1)]
        /\ UNCHANGED << parked, shared_array >>

ThresholdNext == ThresholdSet \/ ThresholdReturn \/ ThresholdDescend

ThresholdSpec == ThresholdInit /\ [][ThresholdNext]_vars

PendingTasks ==
    LET held(w) == IF workers[w].pc \in {"task", "solve", "after"} THEN 1 ELSE 0
    IN  Len(workers[1].local_heap) + held(1)
        + Len(workers[2].local_heap) + held(2)
        + CHUNK_SIZE * Len(global_chunk_queue.heap)
        + Len(shared_array)

\* C38: moving tasks between the tiers loses no task and makes none: a step
\* that takes the next task (import_chunk_from_global included) and a step
\* that ends the search of a subtask (idle-driven export, check_and_export,
\* export_top_chunk included) leave the number of pending tasks as it was,
\* also with a full GlobalChunkQueue or a full LocalHeap.
C38_TierMovesKeepTasks ==
    [][\A w \in WorkerIds :
          (\/ (workers[w].pc = "get" /\ workers'[w].pc = "task")
           \/ (workers[w].pc = "solve" /\ workers'[w].pc = "after"
                  /\ ~workers[w].task.is_root_task))
             => PendingTasks' = PendingTasks]_vars

\* ------------------------------------------------------------------------
\* SchedFairSpec: the task loop of SchedSpec together with the end of
\* process_task (the result of the task, tasks_completed, the retry task,
\* found_win) and the poll of solve_endgame, under fair scheduling: a thread
\* that can take a step of its loop eventually takes one.  The search of a
\* task stands as its outcome.  There is no time limit.  The start is the
\* moment the three root tasks have been taken: workers 1 and 2 hold the
\* root tasks of moves 1 and 3; worker 3 took the root task of move 2 and
\* either proved it (tasks_completed = 1) or found its position without
\* children and returned from the root split without counting it
\* (tasks_completed = 0), and has read is_fast_sharing_mode, TRUE, before
\* worker 2 took its task.
MaxRetry == 1

SchedRootTask(root_move) ==
    [SchedTask(root_move, 0) EXCEPT !.is_root_task = TRUE]

\* how a task can end: a root task whose position has no children returns
\* from the root split at once; a root task that is not proven is retried
\* (at most MaxRetry times here)
SchedOutcomes(task) ==
    IF task.is_root_task /\ task.generation = 0
      THEN {"no_children", "unknown", "lose", "win"}
    ELSE IF task.is_root_task /\ task.priority <= 0 - 100 * MaxRetry
      THEN {"lose", "win"}
    ELSE {"unknown", "lose", "win"}

SchedFairInit ==
    /\ game = MkGame(<< LeafFor("D", TRUE, 0) >>, << >>)
    /\ time_limit = 0
    /\ num_threads = SchedWorkers
    /\ pc_main = "wait"
    /\ final_result = RESULT_UNKNOWN
    /\ best_move = -1
    /\ tt = << >>
    /\ move_results = << >>
    /\ found_win = FALSE
    /\ winning_move = 0
    /\ shutdown = FALSE
    /\ tasks_completed \in {0, 1}
    /\ shared_array = << >>
    /\ global_chunk_queue = EmptyQueue
    /\ busy = SchedIds
    /\ active_workers = SchedWorkers
    /\ workers = [w \in SchedIds |->
                    IF w = 3
                      THEN [SchedIdle EXCEPT !.pc = "take", !.task = SchedRootTask(2),
                                             !.fast_sharing = TRUE, !.is_busy = TRUE]
                      ELSE [SchedIdle EXCEPT !.pc = "task", !.is_busy = TRUE,
                                             !.fast_sharing = TRUE,
                                             !.task = SchedRootTask(IF w = 1 THEN 1 ELSE 3)]]

\* while (!shutdown && !found_win) { get_next_task_hybrid ...
SchedLoop(w) ==
    /\ ~shutdown
    /\ ~found_win
    /\ SchedRead(w)

\* process_task to its end: the subtasks and exports of SchedSpawn, then the
\* result: a proven root task is counted, an unproven one is pushed to the
\* LocalHeap again with priority - 100, a win sets found_win
SchedFinish(w) ==
    LET me == workers[w]
        task == me.task
        fast_sharing == is_fast_sharing_mode(busy_count, active_workers, num_threads)
        has_idle == busy_count < num_threads
    IN  /\ me.pc = "task"
        /\ \E out \in SchedOutcomes(task) :
           \E k \in (IF out = "no_children" THEN {0} ELSE SpawnCounts(task)),
              due \in (IF out = "no_children" THEN {FALSE} ELSE BOOLEAN) :
              \E sp \in { SchedPush(k, 0, fast_sharing,
                                    SchedTask(task.root_move, task.generation + 1),
                                    me.local_heap, shared_array) } :
              \E idle \in { IF due /\ has_idle /\ Len(sp.lh) > 1
                              THEN share_remaining_tasks(sp.lh, sp.sa) ELSE sp } :
              \E ex \in { IF due /\ ~fast_sharing
                            THEN check_and_export(idle.lh, global_chunk_queue)
                            ELSE [lh |-> idle.lh, gq |-> global_chunk_queue] } :
              \E lh \in { IF task.is_root_task /\ out = "unknown"
                                /\ ~found_win /\ ~shutdown
                            THEN local_heap_push(ex.lh,
                                     [task EXCEPT !.priority = @ - 100,
                                                  !.generation = 1])
                            ELSE ex.lh } :
                  /\ shared_array' = idle.sa
                  /\ global_chunk_queue' = ex.gq
                  /\ workers' = [workers EXCEPT ![w] =
                         [me EXCEPT !.pc = "get", !.local_heap = lh]]
                  /\ tasks_completed' =
                         IF task.is_root_task /\ out \in {"lose", "win"}
                           THEN tasks_completed + 1 ELSE tasks_completed
                  /\ found_win' = (found_win \/ out = "win")
        /\ UNCHANGED << game, time_limit, num_threads, pc_main, final_result,
                        best_move, tt, move_results, winning_move, shutdown,
                        active_workers, busy >>

\* solve_endgame: if (tasks_completed >= n_moves) shutdown = true
SchedMain ==
    /\ pc_main = "wait"
    /\ ~shutdown
    /\ ~found_win
    /\ tasks_completed >= SchedWorkers
    /\ shutdown' = TRUE
    /\ UNCHANGED << game, time_limit, num_threads, pc_main, final_result,
                    best_move, tt, move_results, found_win, winning_move,
                    tasks_completed, active_workers, shared_array,
                    global_chunk_queue, busy, workers >>

SchedFairNext ==
    \/ \E w \in SchedIds : SchedLoop(w)
    \/ \E w \in SchedIds : SchedTake(w)
    \/ \E w \in SchedIds : SchedFinish(w)
    \/ SchedMain

\* SchedTake(w) is enabled exactly when worker w is at "take", and it leaves
\* "take": its weak fairness is that w is not at "take" for ever
SchedFairSpec ==
    /\ SchedFairInit
    /\ [][SchedFairNext]_vars
    /\ WF_vars(SchedMain)
    /\ \A w \in SchedIds :
          /\ WF_vars(SchedLoop(w))
          /\ WF_vars(SchedFinish(w))
          /\ []<>(workers[w].pc # "take")

\* C39: a chunk in the GlobalChunkQueue is eventually imported: the queue
\* does not stay non-empty for ever while no shutdown and no found_win occurs.
C39_ChunkEventuallyImported ==
    (Len(global_chunk_queue.heap) > 0)
        ~> (Len(global_chunk_queue.heap) = 0 \/ shutdown \/ found_win)

\* ------------------------------------------------------------------------
\* the root moves whose move_results entry is not Unknown
CompletedMoves ==
    { i \in 1..NMoves(game) : move_results[i] # RESULT_UNKNOWN }

\* the root task of root move i is pending in a tier, or a worker other than
\* w is processing it
RootTaskBeside(i, w) ==
    \/ \E v \in WorkerIds :
          \/ \E k \in 1..Len(workers[v].local_heap) :
                IsRootTaskOf(workers[v].local_heap[k], i)
          \/ v # w /\ workers[v].pc \in Processing /\ IsRootTaskOf(workers[v].task, i)
    \/ \E k \in 1..Len(shared_array) : IsRootTaskOf(shared_array[k], i)
    \/ \E c \in 1..Len(global_chunk_queue.heap) :
          \E k \in 1..Len(global_chunk_queue.heap[c].tasks) :
             IsRootTaskOf(global_chunk_queue.heap[c].tasks[k], i)

\* tasks_completed is at most the number of root moves with a result, so it
\* is at most the number of root moves and reaches it only when no root
\* move is Unknown
CountedMovesHaveResults ==
    /\ tasks_completed <= Cardinality(CompletedMoves)
    /\ tasks_completed <= NMoves(game)
    /\ tasks_completed >= NMoves(game) => CompletedMoves = 1..NMoves(game)

\* C40: tasks_completed never exceeds the number of root moves; a step that
\* counts adds one, for the root task the worker is reporting, whose
\* move_results entry is then not Unknown, and leaves no root task of that
\* move to be counted again; so tasks_completed >= n_moves does not hold
\* while a root move is Unknown.
C40_RootMoveCountedOnce ==
    [][/\ CountedMovesHaveResults'
       /\ tasks_completed' > tasks_completed =>
             /\ tasks_completed' = tasks_completed + 1
             /\ \E w \in 1..num_threads :
                   LET i == MoveIdx(game, workers[w].task.root_move)
                   IN  /\ workers[w].pc \in {"report", "store_win"}
                       /\ workers'[w].pc = "after"
                       /\ workers[w].task.is_root_task
                       /\ i > 0
                       /\ move_results'[i] # RESULT_UNKNOWN
                       /\ ~RootTaskBeside(i, w)']_vars

\* the orchestrator has left its wait loop, without a time limit and without
\* a win, because both root moves of a game were counted
C40_Witness ==
    /\ NMoves(game) = 2
    /\ tasks_completed = 2
    /\ pc_main = "join"
    /\ ~found_win
    /\ time_limit = 0
    /\ CompletedMoves = {1, 2}

====
